---- MODULE Spec2Model ----
(***************************************************************************)
(* A model of the plugin rack (plugrack.c): discovery of plugin files      *)
(* under a paranoia policy, demand loading with reference counts, idle     *)
(* purging and teardown.  Paths and type strings are sequences of          *)
(* one-character strings so that strrchr, strcpy and strncmp are modelled  *)
(* by what they do.                                                        *)
(***************************************************************************)
EXTENDS Integers, Sequences, FiniteSets, Bags, TLC

(***************************************************************************)
(* Bounds of the model.                                                    *)
(***************************************************************************)
\* entries the rack may hold
MaxEntries == 2
\* largest refcount a step may produce
MaxRef == 2
\* largest number of outstanding opens of one module in the loader
MaxOpens == 1
\* handle values the caller may hold unreleased
MaxHeld == 2

(***************************************************************************)
(* Program constants.                                                      *)
(***************************************************************************)
\* a null pointer: no path and no type string equals it
NULL == <<"NULL">>
PLUGIN_INVALID_HANDLE == 0
SLURM_SUCCESS == 0
SLURM_ERROR == -1
PLUGRACK_UID_NOBODY == 99
PLUGRACK_PARANOIA_NONE == 0
PLUGRACK_PARANOIA_DIR_OWN == 1
PLUGRACK_PARANOIA_DIR_WRITABLE == 2
PLUGRACK_PARANOIA_FILE_OWN == 4
PLUGRACK_PARANOIA_FILE_WRITABLE == 8

\* x & bit, for a single-bit mask
BitAnd(x, bit) == IF (x \div bit) % 2 = 1 THEN bit ELSE 0

\* the value a uint32_t takes when stored in the uint8_t paranoia field
ToUint8(flags) == flags % 256

(***************************************************************************)
(* The file system and the plugin files the rack is run against.           *)
(***************************************************************************)
DirD == <<"/", "d">>
DirW == <<"/", "w">>
DirN == <<"/", "n">>
DirO == <<"/", "o">>
DirRoot == <<"/">>

\* strcpy( fq_path, dir ); *tail = '/'; strcpy( tail, e->d_name )
ComposePath(dir, name) == dir \o <<"/">> \o name

TypeAX == <<"a", "/", "x">>
TypeAY == <<"a", "/", "y">>
TypeSY == <<"s", "/", "y">>
TypeAB == <<"a", "b">>
TypeNone == <<>>

NoNode == [ok |-> FALSE, st_uid |-> 0, gw |-> FALSE, ow |-> FALSE,
           reg |-> FALSE, dir |-> FALSE]
Node(u, g, o, r, d) == [ok |-> TRUE, st_uid |-> u, gw |-> g, ow |-> o,
                        reg |-> r, dir |-> d]

\* stat(2): /d is a directory of uid 500 nobody else can write, /w one the
\* group can write, /o an empty one the others can write; /d/b belongs to uid 501 and is group-writable, /d/l is no
\* regular file, /d/t is a regular file that is no plugin, /d/g is a name
\* of /d that cannot be statted, /n does not exist.  The root directory
\* belongs to uid 0 and others can write it; /r is a regular file of uid 500
\* in it, r is the same file named from the working directory /, and //r
\* is the same file as a scan of / composes its name.
stat(path) ==
    CASE path = DirD -> Node(500, FALSE, FALSE, FALSE, TRUE)
      [] path = DirW -> Node(500, TRUE, FALSE, FALSE, TRUE)
      [] path = DirO -> Node(500, FALSE, TRUE, FALSE, TRUE)
      [] path = DirRoot -> Node(0, FALSE, TRUE, FALSE, TRUE)
      [] path = <<"/", "r">> -> Node(500, FALSE, FALSE, TRUE, FALSE)
      [] path = <<"r">> -> Node(500, FALSE, FALSE, TRUE, FALSE)
      [] path = ComposePath(DirRoot, <<"r">>) -> Node(500, FALSE, FALSE, TRUE, FALSE)
      [] path = ComposePath(DirD, <<"a">>) -> Node(500, FALSE, FALSE, TRUE, FALSE)
      [] path = ComposePath(DirD, <<"b">>) -> Node(501, TRUE, FALSE, TRUE, FALSE)
      [] path = ComposePath(DirD, <<"t">>) -> Node(500, FALSE, FALSE, TRUE, FALSE)
      [] path = ComposePath(DirD, <<"l">>) -> Node(500, FALSE, FALSE, FALSE, FALSE)
      [] path = ComposePath(DirW, <<"a">>) -> Node(500, FALSE, FALSE, TRUE, FALSE)
      [] OTHER -> NoNode

\* opendir/readdir: the names of a directory, in the order readdir gives them
readdir(dir) ==
    CASE dir = DirD -> << <<"a">>, <<"l">>, <<"g">>, <<"b">>, <<"t">> >>
      [] dir = DirW -> << <<"a">> >>
      [] dir = DirRoot -> << <<"d">>, <<"w">>, <<"o">>, <<"r">> >>
      [] OTHER -> <<>>

opendir(dir) == stat(dir).ok /\ stat(dir).dir

\* plugin_peek: the type a plugin file declares; TypeNone is SLURM_ERROR.
\* /r declares a type of no delimiter; it is no module the loader can open.
plugin_peek(path) ==
    CASE path = ComposePath(DirD, <<"a">>) -> TypeAX
      [] path = ComposePath(DirD, <<"b">>) -> TypeSY
      [] path = ComposePath(DirW, <<"a">>) -> TypeAX
      [] path = <<"/", "r">> -> TypeAB
      [] path = <<"r">> -> TypeAB
      [] path = ComposePath(DirRoot, <<"r">>) -> TypeAB
      [] OTHER -> TypeNone

\* the plugin files, and the handle the loader gives for each
PluginFiles == << ComposePath(DirD, <<"a">>), ComposePath(DirD, <<"b">>),
                  ComposePath(DirW, <<"a">>) >>
HandleOf(path) ==
    IF \E k \in 1..Len(PluginFiles) : PluginFiles[k] = path
    THEN CHOOSE k \in 1..Len(PluginFiles) : PluginFiles[k] = path
    ELSE PLUGIN_INVALID_HANDLE
Handles == 1..Len(PluginFiles)
PathOfHandle(h) == PluginFiles[h]

\* the arguments the callers pass
FilePaths == { ComposePath(DirD, <<"a">>), ComposePath(DirD, <<"b">>),
               ComposePath(DirD, <<"t">>), ComposePath(DirW, <<"a">>) }
DirPaths == {DirD, DirW, DirN}
MajorTypes == { <<"a">> }
FullTypes == {TypeAX, TypeSY, TypeAY}
FlagInputs == {0, 2, 4, 256}
UidInputs == {500, 501}
\* paths in the root directory, without a directory part, or of no node
RootFilePaths == { <<"/", "r">>, <<"r">>, ComposePath(DirD, <<"g">>),
                   ComposePath(DirD, <<"b">>) }
RootDirPaths == {DirRoot}

(***************************************************************************)
(* State.                                                                  *)
(***************************************************************************)
VARIABLES
    alive,        \* the rack exists (created and not destroyed)
    entries,      \* rack->entries: sequence of plugrack_entry_t
    major_type,   \* rack->major_type, or NULL
    uid,          \* rack->uid
    paranoia,     \* rack->paranoia (uint8_t)
    opens,        \* loader: outstanding opens of each plugin file
    held,         \* bag of the handle values use_by_type returned, unreleased;
                  \* followed only while the caller is disciplined
    disciplined,  \* the caller has released only handle values it held
    refused,      \* a destroy of this rack has been refused
    lastOp,       \* the last call: op, arg, rc and the loader calls it made
    refBefore,    \* the refcount the entry use_by_type matched had before the
                  \* call, while use_by_type is the last call; 0 otherwise
    verdict,      \* the last call of accept_path_paranoia and what it returned
    pc,           \* threads: where each thread is in its call
    loc,          \* threads: each thread's call and local variables
    ret,          \* threads: what each thread's call returned
    start,        \* threads: the entries and the loader before the calls
    conf,                   \* CliFilterPlugins of the configuration
    clifilter_plugin_list,  \* cli_filter.c: the list init read, or NULL
    g_context_cnt,          \* cli_filter.c: -1, or the number of contexts
    g_context,              \* cli_filter.c: the plugin contexts
    ops,                    \* cli_filter.c: the function tables
    init_run,               \* cli_filter.c
    g_context_lock,         \* cli_filter.c: 0, or the thread that holds it
    filterOp,     \* the last call of the cli_filter driver, what it returned,
                  \* the contexts it created and destroyed, the callbacks it
                  \* invoked
    family,       \* the family of rack operations the caller draws from,
                  \* where a specification has the caller choose one
    L,            \* cli_filter_lua.c: static lua_State *L; 0 is NULL, else
                  \* the index of a Lua state in lua_states
    lua_states,   \* the Lua states luaL_newstate has made: open or closed,
                  \* and the globals the script left in them
    luaOp,        \* the last call of the cli_filter/lua plugin
    update_list,  \* the caller's update_list: slurmdb_update_object_t's
    updateOp      \* the last call of addto_update_list

vars == <<alive, entries, major_type, uid, paranoia, opens, held,
          disciplined, refused, lastOp, refBefore, verdict, pc, loc, ret,
          start, conf, clifilter_plugin_list, g_context_cnt, g_context, ops,
          init_run, g_context_lock, filterOp, family, L, lua_states, luaOp,
          update_list, updateOp>>

luaVars == <<L, lua_states, luaOp>>
updateVars == <<update_list, updateOp>>

filterVars == <<conf, clifilter_plugin_list, g_context_cnt, g_context, ops,
                init_run, g_context_lock, filterOp>>

threadVars == <<pc, loc, ret, start>>

rackVars == <<entries, major_type, uid, paranoia>>
callerVars == <<held, disciplined, refused>>

Entry(t, p) == [full_type |-> t, fq_path |-> p,
                plug |-> PLUGIN_INVALID_HANDLE, refcount |-> 0]

Call(op, arg, rc, calls) == [op |-> op, arg |-> arg, rc |-> rc, calls |-> calls]

\* the comparison with major_type asking for the '/' after the prefix
PrefixMatchDelimited(major, type) ==
    /\ Len(type) > Len(major)
    /\ SubSeq(type, 1, Len(major)) = major
    /\ type[Len(major) + 1] = "/"

\* strncmp( major_type, plugin_type, strlen( major_type ) ) == 0
PrefixMatch(major, type) ==
    /\ Len(type) >= Len(major)
    /\ SubSeq(type, 1, Len(major)) = major

\* rack->major_type && strncmp(...) != 0
TypeRejected(major, type) == major # NULL /\ ~PrefixMatch(major, type)

(***************************************************************************)
(* The module loader (plugin.c), seen through the calls the rack makes.    *)
(* A loader call is a peek of a path, a load of a path with the handle it   *)
(* gave, or an unload of a handle.                                         *)
(***************************************************************************)
\* plugin_load_from_file: the file's handle, or PLUGIN_INVALID_HANDLE when
\* the load fails (ok = FALSE) or the file is no plugin
plugin_load_from_file(path, ok) ==
    IF ok THEN HandleOf(path) ELSE PLUGIN_INVALID_HANDLE

LoadCall(path, h) == [kind |-> "load", path |-> path, h |-> h]
UnloadCall(h) == [kind |-> "unload", path |-> <<>>, h |-> h]
PeekCall(path) == [kind |-> "peek", path |-> path, h |-> PLUGIN_INVALID_HANDLE]

\* the loader's open counts after one call
LoaderAfterCall(o, c) ==
    IF c.kind = "load" /\ c.h # PLUGIN_INVALID_HANDLE
    THEN [o EXCEPT ![c.h] = @ + 1]
    ELSE IF c.kind = "unload" /\ c.h # PLUGIN_INVALID_HANDLE
    THEN [o EXCEPT ![c.h] = IF @ > 0 THEN @ - 1 ELSE 0]
    ELSE o

RECURSIVE LoaderAfter(_, _)
LoaderAfter(o, calls) ==
    IF calls = <<>> THEN o
    ELSE LoaderAfter(LoaderAfterCall(o, Head(calls)), Tail(calls))

(***************************************************************************)
(* The security validator.                                                 *)
(***************************************************************************)
\* accept_path_paranoia testing the owner whatever check_own is
accept_path_paranoia_owner(rack_uid, fq_path, check_own, check_write) ==
    LET st == stat(fq_path) IN
    IF ~st.ok THEN FALSE
    ELSE IF st.st_uid # rack_uid THEN FALSE
    ELSE IF check_write # 0 /\ (st.gw \/ st.ow) THEN FALSE
    ELSE TRUE

\* accept_path_paranoia testing S_IWGRP only
accept_path_paranoia_group(rack_uid, fq_path, check_own, check_write) ==
    LET st == stat(fq_path) IN
    IF ~st.ok THEN FALSE
    ELSE IF check_own # 0 /\ st.st_uid # rack_uid THEN FALSE
    ELSE IF check_write # 0 /\ st.gw THEN FALSE
    ELSE TRUE

\* accept_path_paranoia( rack, fq_path, check_own, check_write )
accept_path_paranoia(rack_uid, fq_path, check_own, check_write) ==
    LET st == stat(fq_path) IN
    IF ~st.ok THEN FALSE
    ELSE IF check_own # 0 /\ st.st_uid # rack_uid THEN FALSE
    ELSE IF check_write # 0 /\ (st.gw \/ st.ow) THEN FALSE
    ELSE TRUE

\* strrchr( local, '/' ): the index of the last '/', 0 for NULL
strrchr(s, c) ==
    IF \E k \in 1..Len(s) : s[k] = c
    THEN CHOOSE k \in 1..Len(s) : s[k] = c /\ \A j \in (k+1)..Len(s) : s[j] # c
    ELSE 0

\* accept_paranoia taking a path without '/' for a file of the working
\* directory, which it does not check
accept_paranoia_no_separator(par, rack_uid, fq_path) ==
    IF par = 0 THEN TRUE
    ELSE IF ~accept_path_paranoia(rack_uid, fq_path,
                                  BitAnd(par, PLUGRACK_PARANOIA_FILE_OWN),
                                  BitAnd(par, PLUGRACK_PARANOIA_FILE_WRITABLE))
    THEN FALSE
    ELSE LET p == strrchr(fq_path, "/")
             local == IF p # 1 THEN SubSeq(fq_path, 1, p - 1) ELSE fq_path
         IN IF p = 0 THEN TRUE
            ELSE accept_path_paranoia(rack_uid, local,
                                      BitAnd(par, PLUGRACK_PARANOIA_DIR_OWN),
                                      BitAnd(par, PLUGRACK_PARANOIA_DIR_WRITABLE))

\* accept_paranoia without the trivial accept, every file-level check on
accept_paranoia_strict(par, rack_uid, fq_path) ==
    accept_path_paranoia(rack_uid, fq_path, PLUGRACK_PARANOIA_FILE_OWN,
                         PLUGRACK_PARANOIA_FILE_WRITABLE)

\* accept_paranoia( rack, fq_path )
accept_paranoia(par, rack_uid, fq_path) ==
    IF par = 0 THEN TRUE
    ELSE IF ~accept_path_paranoia(rack_uid, fq_path,
                                  BitAnd(par, PLUGRACK_PARANOIA_FILE_OWN),
                                  BitAnd(par, PLUGRACK_PARANOIA_FILE_WRITABLE))
    THEN FALSE
    ELSE LET p == strrchr(fq_path, "/")
             local == IF p # 1 THEN SubSeq(fq_path, 1, p - 1) ELSE fq_path
         IN IF p = 0 THEN FALSE
            ELSE accept_path_paranoia(rack_uid, local,
                                      BitAnd(par, PLUGRACK_PARANOIA_DIR_OWN),
                                      BitAnd(par, PLUGRACK_PARANOIA_DIR_WRITABLE))

(***************************************************************************)
(* The rack's operations as functions of the rack's fields.  Each gives    *)
(* the entries after the call, the value returned and the loader calls     *)
(* made, in order.                                                         *)
(***************************************************************************)
Outcome(es, rc, calls) == [entries |-> es, rc |-> rc, calls |-> calls]

\* plugrack_add_plugin_path creating the entry with a reference
plugrack_add_plugin_path_used(es, full_type, fq_path) ==
    Append(es, [Entry(full_type, fq_path) EXCEPT !.refcount = 1])

\* plugrack_add_plugin_path putting the entry at the head of the list
plugrack_add_plugin_path_front(es, full_type, fq_path) ==
    <<Entry(full_type, fq_path)>> \o es

\* plugrack_add_plugin_path: list_append of a fresh entry
plugrack_add_plugin_path(es, full_type, fq_path) ==
    Append(es, Entry(full_type, fq_path))

\* plugrack_add_plugin_file with the type peeked before the paranoia check
AddFileStepPeekFirst(es, major, par, rack_uid, fq_path) ==
    LET t == plugin_peek(fq_path) IN
    IF ~accept_paranoia(par, rack_uid, fq_path) \/ t = TypeNone
       \/ TypeRejected(major, t)
    THEN Outcome(es, SLURM_ERROR, <<PeekCall(fq_path)>>)
    ELSE Outcome(plugrack_add_plugin_path(es, t, fq_path),
                 SLURM_SUCCESS, <<PeekCall(fq_path)>>)

\* plugrack_add_plugin_file without the comparison with major_type
AddFileStepAnyType(es, major, par, rack_uid, fq_path) ==
    IF ~accept_paranoia(par, rack_uid, fq_path)
    THEN Outcome(es, SLURM_ERROR, <<>>)
    ELSE LET t == plugin_peek(fq_path) IN
         IF t = TypeNone
         THEN Outcome(es, SLURM_ERROR, <<PeekCall(fq_path)>>)
         ELSE Outcome(plugrack_add_plugin_path(es, t, fq_path),
                      SLURM_SUCCESS, <<PeekCall(fq_path)>>)

\* plugrack_add_plugin_file, for a non-NULL rack and path
AddFileStep(es, major, par, rack_uid, fq_path) ==
    IF ~accept_paranoia(par, rack_uid, fq_path)
    THEN Outcome(es, SLURM_ERROR, <<>>)
    ELSE LET t == plugin_peek(fq_path) IN
         IF t = TypeNone
         THEN Outcome(es, SLURM_ERROR, <<PeekCall(fq_path)>>)
         ELSE IF TypeRejected(major, t)
         THEN Outcome(es, SLURM_ERROR, <<PeekCall(fq_path)>>)
         ELSE Outcome(plugrack_add_plugin_path(es, t, fq_path),
                      SLURM_SUCCESS, <<PeekCall(fq_path)>>)

\* one turn of the readdir loop of plugrack_read_dir, for the name e
ReadDirFile(acc, major, par, rack_uid, dir, e) ==
    LET fq_path == ComposePath(dir, e)
        st == stat(fq_path)
    IN IF ~st.ok THEN acc
       ELSE IF ~st.reg THEN acc
       ELSE IF ~accept_path_paranoia(rack_uid, dir,
                                     BitAnd(par, PLUGRACK_PARANOIA_FILE_OWN),
                                     BitAnd(par, PLUGRACK_PARANOIA_FILE_WRITABLE))
       THEN acc
       ELSE LET t == plugin_peek(fq_path)
                calls == Append(acc.calls, PeekCall(fq_path))
            IN IF t = TypeNone THEN Outcome(acc.entries, acc.rc, calls)
               ELSE IF TypeRejected(major, t)
               THEN Outcome(acc.entries, acc.rc, calls)
               ELSE Outcome(plugrack_add_plugin_path(acc.entries, t, fq_path),
                            acc.rc, calls)

RECURSIVE ReadDirLoop(_, _, _, _, _, _)
ReadDirLoop(acc, major, par, rack_uid, dir, names) ==
    IF names = <<>> THEN acc
    ELSE ReadDirLoop(ReadDirFile(acc, major, par, rack_uid, dir, Head(names)),
                     major, par, rack_uid, dir, Tail(names))

\* plugrack_read_dir leaving the loop after the first name
ReadDirStepFirstName(es, major, par, rack_uid, dir) ==
    IF ~accept_path_paranoia(rack_uid, dir,
                             BitAnd(par, PLUGRACK_PARANOIA_DIR_OWN),
                             BitAnd(par, PLUGRACK_PARANOIA_DIR_WRITABLE))
    THEN Outcome(es, SLURM_ERROR, <<>>)
    ELSE IF ~opendir(dir) THEN Outcome(es, SLURM_ERROR, <<>>)
    ELSE ReadDirLoop(Outcome(es, SLURM_SUCCESS, <<>>), major, par, rack_uid,
                     dir, SubSeq(readdir(dir), 1, 1))

\* plugrack_read_dir, for a non-NULL rack and dir
ReadDirStep(es, major, par, rack_uid, dir) ==
    IF ~accept_path_paranoia(rack_uid, dir,
                             BitAnd(par, PLUGRACK_PARANOIA_DIR_OWN),
                             BitAnd(par, PLUGRACK_PARANOIA_DIR_WRITABLE))
    THEN Outcome(es, SLURM_ERROR, <<>>)
    ELSE IF ~opendir(dir) THEN Outcome(es, SLURM_ERROR, <<>>)
    ELSE ReadDirLoop(Outcome(es, SLURM_SUCCESS, <<>>), major, par, rack_uid,
                     dir, readdir(dir))

\* the first entry of the list for which the iterator's test holds, 0 if none
FirstByType(es, full_type) ==
    IF \E i \in 1..Len(es) : es[i].full_type = full_type
    THEN CHOOSE i \in 1..Len(es) :
            /\ es[i].full_type = full_type
            /\ \A j \in 1..(i-1) : es[j].full_type # full_type
    ELSE 0

FirstByPlug(es, plug) ==
    IF \E i \in 1..Len(es) : es[i].plug = plug
    THEN CHOOSE i \in 1..Len(es) :
            /\ es[i].plug = plug
            /\ \A j \in 1..(i-1) : es[j].plug # plug
    ELSE 0

\* plugrack_use_by_type taking the last entry of the type
UseStepLastMatch(es, full_type, ok) ==
    LET i == IF FirstByType(es, full_type) = 0 THEN 0
             ELSE CHOOSE k \in 1..Len(es) :
                     /\ es[k].full_type = full_type
                     /\ \A j \in (k+1)..Len(es) : es[j].full_type # full_type
    IN
    IF i = 0 THEN Outcome(es, PLUGIN_INVALID_HANDLE, <<>>)
    ELSE LET e == es[i]
             attempt == e.plug = PLUGIN_INVALID_HANDLE
             plug1 == IF attempt THEN plugin_load_from_file(e.fq_path, ok)
                      ELSE e.plug
             ref1 == IF plug1 = PLUGIN_INVALID_HANDLE THEN e.refcount + 1
                     ELSE e.refcount
         IN Outcome([es EXCEPT ![i] = [e EXCEPT !.plug = plug1,
                                                !.refcount = ref1]],
                    plug1,
                    IF attempt THEN <<LoadCall(e.fq_path, plug1)>> ELSE <<>>)

\* plugrack_use_by_type taking the first entry when no entry has the type
UseStepAnyType(es, full_type, ok) ==
    LET i == IF FirstByType(es, full_type) = 0 /\ Len(es) > 0 THEN 1
             ELSE FirstByType(es, full_type)
    IN
    IF i = 0 THEN Outcome(es, PLUGIN_INVALID_HANDLE, <<>>)
    ELSE LET e == es[i]
             attempt == e.plug = PLUGIN_INVALID_HANDLE
             plug1 == IF attempt THEN plugin_load_from_file(e.fq_path, ok)
                      ELSE e.plug
             ref1 == IF plug1 = PLUGIN_INVALID_HANDLE THEN e.refcount + 1
                     ELSE e.refcount
         IN Outcome([es EXCEPT ![i] = [e EXCEPT !.plug = plug1,
                                                !.refcount = ref1]],
                    plug1,
                    IF attempt THEN <<LoadCall(e.fq_path, plug1)>> ELSE <<>>)

\* plugrack_use_by_type, for a non-NULL rack and type; ok tells whether a
\* load it attempts succeeds
UseStep(es, full_type, ok) ==
    LET i == FirstByType(es, full_type) IN
    IF i = 0 THEN Outcome(es, PLUGIN_INVALID_HANDLE, <<>>)
    ELSE LET e == es[i]
             attempt == e.plug = PLUGIN_INVALID_HANDLE
             plug1 == IF attempt THEN plugin_load_from_file(e.fq_path, ok)
                      ELSE e.plug
             ref1 == IF plug1 = PLUGIN_INVALID_HANDLE THEN e.refcount + 1
                     ELSE e.refcount
         IN Outcome([es EXCEPT ![i] = [e EXCEPT !.plug = plug1,
                                                !.refcount = ref1]],
                    plug1,
                    IF attempt THEN <<LoadCall(e.fq_path, plug1)>> ELSE <<>>)

\* plugrack_finished_with_plugin unloading the plugin at refcount zero
FinishedStepUnloadAtZero(es, plug) ==
    LET i == FirstByPlug(es, plug) IN
    IF i = 0 THEN Outcome(es, SLURM_ERROR, <<>>)
    ELSE IF es[i].refcount - 1 <= 0
    THEN Outcome([es EXCEPT ![i].refcount = 0,
                            ![i].plug = PLUGIN_INVALID_HANDLE],
                 SLURM_SUCCESS, <<UnloadCall(plug)>>)
    ELSE Outcome([es EXCEPT ![i].refcount = @ - 1], SLURM_SUCCESS, <<>>)

\* plugrack_finished_with_plugin without the clamp at zero
FinishedStepNoClamp(es, plug) ==
    LET i == FirstByPlug(es, plug) IN
    IF i = 0 THEN Outcome(es, SLURM_ERROR, <<>>)
    ELSE Outcome([es EXCEPT ![i].refcount = @ - 1], SLURM_SUCCESS, <<>>)

\* plugrack_finished_with_plugin, for a non-NULL rack
FinishedStep(es, plug) ==
    LET i == FirstByPlug(es, plug) IN
    IF i = 0 THEN Outcome(es, SLURM_ERROR, <<>>)
    ELSE Outcome([es EXCEPT ![i].refcount = IF @ - 1 < 0 THEN 0 ELSE @ - 1],
                 SLURM_SUCCESS, <<>>)

\* plugrack_purge_idle, for a non-NULL rack
RECURSIVE PurgeLoop(_, _)
PurgeLoop(acc, i) ==
    IF i > Len(acc.entries) THEN acc
    ELSE LET e == acc.entries[i] IN
         IF e.plug # PLUGIN_INVALID_HANDLE /\ e.refcount = 0
         THEN PurgeLoop(Outcome([acc.entries EXCEPT
                                    ![i].plug = PLUGIN_INVALID_HANDLE],
                                acc.rc, Append(acc.calls, UnloadCall(e.plug))),
                        i + 1)
         ELSE PurgeLoop(acc, i + 1)

\* plugrack_purge_idle unloading every loaded entry, whatever its refcount
PurgeStepAnyCount(es) ==
    LET loaded == SelectSeq(es, LAMBDA e : e.plug # PLUGIN_INVALID_HANDLE)
    IN Outcome([i \in 1..Len(es) |->
                   [es[i] EXCEPT !.plug = PLUGIN_INVALID_HANDLE]],
               SLURM_SUCCESS,
               [k \in 1..Len(loaded) |-> UnloadCall(loaded[k].plug)])

PurgeStep(es) == PurgeLoop(Outcome(es, SLURM_SUCCESS, <<>>), 1)

\* plugrack_load_all, for a non-NULL rack; oks[i] tells whether the load of
\* entry i succeeds.  The handle plugin_load_from_file returns is dropped.
RECURSIVE LoadAllLoop(_, _, _)
LoadAllLoop(acc, oks, i) ==
    IF i > Len(acc.entries) THEN acc
    ELSE LET e == acc.entries[i] IN
         IF e.plug = PLUGIN_INVALID_HANDLE
         THEN LoadAllLoop(Outcome(acc.entries, acc.rc,
                                  Append(acc.calls,
                                         LoadCall(e.fq_path,
                                            plugin_load_from_file(e.fq_path,
                                                                  oks[i])))),
                          oks, i + 1)
         ELSE LoadAllLoop(acc, oks, i + 1)

LoadAllStep(es, oks) == LoadAllLoop(Outcome(es, SLURM_SUCCESS, <<>>), oks, 1)

\* plugrack_entry_destructor for every entry, as list_destroy runs it
RECURSIVE DestructorCalls(_)
DestructorCalls(es) ==
    IF es = <<>> THEN <<>>
    ELSE (IF Head(es).plug # PLUGIN_INVALID_HANDLE
          THEN <<UnloadCall(Head(es).plug)>> ELSE <<>>)
         \o DestructorCalls(Tail(es))

\* plugrack_destroy without the scan for plugins still in use
DestroyStepNoScan(es) == Outcome(<<>>, SLURM_SUCCESS, DestructorCalls(es))

\* plugrack_destroy, for a non-NULL rack
DestroyStep(es) ==
    IF \E i \in 1..Len(es) : es[i].refcount > 0
    THEN Outcome(es, SLURM_ERROR, <<>>)
    ELSE Outcome(<<>>, SLURM_SUCCESS, DestructorCalls(es))

(***************************************************************************)
(* The calls, as actions on the one rack the callers share.  Every call    *)
(* returns at once for a NULL rack; the rack here is never NULL, and a     *)
(* call on a rack that has been destroyed is not modelled.                 *)
(***************************************************************************)
\* no call of accept_path_paranoia recorded
NoVerdict == [called |-> FALSE, uid |-> 0, fq_path |-> <<>>, check_own |-> 0,
              check_write |-> 0, rc |-> 0]

\* the threads that share the rack, and a thread that is in no call
Threads == {1, 2}
NoLocal == [op |-> "none", type |-> TypeNone, i |-> 0, plug |-> 0,
            refcount |-> 0]
NoThreads ==
    /\ pc = [t \in Threads |-> "none"]
    /\ loc = [t \in Threads |-> NoLocal]
    /\ ret = [t \in Threads |-> 0]
    /\ start = [entries |-> <<>>, opens |-> [h \in Handles |-> 0]]

\* the cli_filter driver before any call of it: g_context_cnt = -1, ops,
\* g_context and clifilter_plugin_list NULL, init_run false
NoDriver == [clifilter_plugin_list |-> NULL, g_context_cnt |-> -1,
             g_context |-> <<>>, ops |-> <<>>, init_run |-> FALSE]
NoFilterOp == [op |-> "none", rc |-> SLURM_SUCCESS, created |-> <<>>,
               destroyed |-> <<>>, invoked |-> <<>>]
NoFilter ==
    /\ conf = NULL
    /\ clifilter_plugin_list = NoDriver.clifilter_plugin_list
    /\ g_context_cnt = NoDriver.g_context_cnt
    /\ g_context = NoDriver.g_context
    /\ ops = NoDriver.ops
    /\ init_run = NoDriver.init_run
    /\ g_context_lock = 0
    /\ filterOp = NoFilterOp

\* the cli_filter/lua plugin before any call of it: L is NULL
LuaValue(t, numeric, tenths) == [t |-> t, numeric |-> numeric,
                                 tenths |-> tenths]
LuaNil == LuaValue("nil", FALSE, 0)
NoScript == [load |-> "none", pre |-> "nil", setup |-> "nil"]
NoLuaOp == [op |-> "none", rc |-> SLURM_SUCCESS, script |-> NoScript,
            result |-> LuaNil, created |-> FALSE, used_closed |-> FALSE,
            used_null |-> FALSE, closed_twice |-> FALSE,
            closed_null |-> FALSE]
NoLua ==
    /\ L = 0
    /\ lua_states = <<>>
    /\ luaOp = NoLuaOp

\* an update list as list_create leaves it, and no call of
\* addto_update_list yet
NoUpdateOp == [op |-> "none", type |-> "SLURMDB_UPDATE_NOTSET", object |-> 0,
               rc |-> SLURM_SUCCESS, crashed |-> FALSE]
NoUpdates ==
    /\ update_list = <<>>
    /\ updateOp = NoUpdateOp

InitRack ==
    /\ refBefore = 0
    /\ verdict = NoVerdict
    /\ NoThreads
    /\ NoFilter
    /\ alive = TRUE
    /\ entries = <<>>
    /\ major_type = NULL
    /\ uid = PLUGRACK_UID_NOBODY
    /\ paranoia = PLUGRACK_PARANOIA_NONE
    /\ opens = [h \in Handles |-> 0]
    /\ held = EmptyBag
    /\ disciplined = TRUE
    /\ refused = FALSE
    /\ lastOp = Call("create", NULL, SLURM_SUCCESS, <<>>)

Init == InitRack /\ family = "any" /\ NoLua /\ NoUpdates

\* the bounds every step keeps
WithinBounds(es, o) ==
    /\ Len(es) <= MaxEntries
    /\ \A i \in 1..Len(es) : es[i].refcount <= MaxRef
    /\ \A h \in Handles : o[h] <= MaxOpens

\* what a call leaves of the rack's entries and of the loader
Effect(r) ==
    /\ WithinBounds(r.entries, LoaderAfter(opens, r.calls))
    /\ entries' = r.entries
    /\ opens' = LoaderAfter(opens, r.calls)

plugrack_create ==
    /\ ~alive
    /\ refBefore' = 0
    /\ UNCHANGED <<verdict, threadVars, filterVars, family, luaVars, updateVars>>
    /\ alive' = TRUE
    /\ entries' = <<>>
    /\ major_type' = NULL
    /\ uid' = PLUGRACK_UID_NOBODY
    /\ paranoia' = PLUGRACK_PARANOIA_NONE
    /\ held' = EmptyBag
    /\ disciplined' = TRUE
    /\ refused' = FALSE
    /\ lastOp' = Call("create", NULL, SLURM_SUCCESS, <<>>)
    /\ UNCHANGED opens

plugrack_destroy ==
    /\ alive
    /\ refBefore' = 0
    /\ UNCHANGED <<verdict, threadVars, filterVars, family, luaVars, updateVars>>
    /\ LET r == DestroyStep(entries)
       IN /\ Effect(r)
          /\ alive' = (r.rc # SLURM_SUCCESS)
          /\ refused' = (refused \/ r.rc = SLURM_ERROR)
          /\ lastOp' = Call("destroy", NULL, r.rc, r.calls)
          /\ UNCHANGED <<major_type, uid, paranoia, held, disciplined>>

plugrack_set_major_type ==
    /\ alive
    /\ refBefore' = 0
    /\ UNCHANGED <<verdict, threadVars, filterVars, family, luaVars, updateVars>>
    /\ \E type \in MajorTypes \cup {NULL} :
        /\ major_type' = IF type = NULL THEN major_type ELSE type
        /\ lastOp' = Call("set_major_type", type,
                          IF type = NULL THEN SLURM_ERROR ELSE SLURM_SUCCESS,
                          <<>>)
        /\ UNCHANGED <<alive, entries, uid, paranoia, opens, callerVars>>

plugrack_set_paranoia ==
    /\ alive
    /\ refBefore' = 0
    /\ UNCHANGED <<verdict, threadVars, filterVars, family, luaVars, updateVars>>
    /\ \E flags \in FlagInputs, u \in UidInputs :
        /\ paranoia' = ToUint8(flags)
        /\ uid' = IF flags # 0 THEN u ELSE uid
        /\ lastOp' = Call("set_paranoia", <<flags, u>>, SLURM_SUCCESS, <<>>)
        /\ UNCHANGED <<alive, entries, major_type, opens, callerVars>>

plugrack_add_plugin_file ==
    /\ alive
    /\ refBefore' = 0
    /\ UNCHANGED <<verdict, threadVars, filterVars, family, luaVars, updateVars>>
    /\ \E fq_path \in FilePaths \cup {NULL} :
        LET r == IF fq_path = NULL THEN Outcome(entries, SLURM_ERROR, <<>>)
                 ELSE AddFileStep(entries, major_type, paranoia, uid, fq_path)
        IN /\ Effect(r)
           /\ lastOp' = Call("add_plugin_file", fq_path, r.rc, r.calls)
           /\ UNCHANGED <<alive, major_type, uid, paranoia, callerVars>>

plugrack_read_dir ==
    /\ alive
    /\ refBefore' = 0
    /\ UNCHANGED <<verdict, threadVars, filterVars, family, luaVars, updateVars>>
    /\ \E dir \in DirPaths \cup {NULL} :
        LET r == IF dir = NULL THEN Outcome(entries, SLURM_ERROR, <<>>)
                 ELSE ReadDirStep(entries, major_type, paranoia, uid, dir)
        IN /\ Effect(r)
           /\ lastOp' = Call("read_dir", dir, r.rc, r.calls)
           /\ UNCHANGED <<alive, major_type, uid, paranoia, callerVars>>

plugrack_purge_idle ==
    /\ alive
    /\ refBefore' = 0
    /\ UNCHANGED <<verdict, threadVars, filterVars, family, luaVars, updateVars>>
    /\ LET r == PurgeStep(entries)
       IN /\ Effect(r)
          /\ lastOp' = Call("purge_idle", NULL, r.rc, r.calls)
          /\ UNCHANGED <<alive, major_type, uid, paranoia, callerVars>>

plugrack_load_all ==
    /\ alive
    /\ refBefore' = 0
    /\ UNCHANGED <<verdict, threadVars, filterVars, family, luaVars, updateVars>>
    /\ \E oks \in [1..Len(entries) -> BOOLEAN] :
        LET r == LoadAllStep(entries, oks)
        IN /\ Effect(r)
           /\ lastOp' = Call("load_all", NULL, r.rc, r.calls)
           /\ UNCHANGED <<alive, major_type, uid, paranoia, callerVars>>

plugrack_use_by_type ==
    /\ alive
    /\ UNCHANGED <<verdict, threadVars, filterVars, family, luaVars, updateVars>>
    /\ BagCardinality(held) < MaxHeld
    /\ \E full_type \in FullTypes \cup {NULL}, ok \in BOOLEAN :
        LET r == IF full_type = NULL
                 THEN Outcome(entries, PLUGIN_INVALID_HANDLE, <<>>)
                 ELSE UseStep(entries, full_type, ok)
            i == IF full_type = NULL THEN 0
                 ELSE FirstByType(entries, full_type)
        IN /\ Effect(r)
           /\ refBefore' = IF i = 0 THEN 0 ELSE entries[i].refcount
           /\ held' = IF disciplined THEN held (+) SetToBag({r.rc}) ELSE held
           /\ lastOp' = Call("use_by_type", full_type, r.rc, r.calls)
           /\ UNCHANGED <<alive, major_type, uid, paranoia, disciplined,
                          refused>>

plugrack_finished_with_plugin ==
    /\ alive
    /\ refBefore' = 0
    /\ UNCHANGED <<verdict, threadVars, filterVars, family, luaVars, updateVars>>
    /\ \E plug \in Handles \cup {PLUGIN_INVALID_HANDLE} :
        LET r == FinishedStep(entries, plug)
        IN /\ Effect(r)
           /\ held' = IF disciplined /\ BagIn(plug, held)
                      THEN held (-) SetToBag({plug})
                      ELSE EmptyBag
           /\ disciplined' = (disciplined /\ BagIn(plug, held))
           /\ lastOp' = Call("finished_with_plugin", plug, r.rc, r.calls)
           /\ UNCHANGED <<alive, major_type, uid, paranoia, refused>>

\* Lifecycle: discovery under the policy the rack is created with, demand
\* loading, release, purge and teardown.
Next ==
    \/ plugrack_create
    \/ plugrack_destroy
    \/ plugrack_add_plugin_file
    \/ plugrack_read_dir
    \/ plugrack_purge_idle
    \/ plugrack_load_all
    \/ plugrack_use_by_type
    \/ plugrack_finished_with_plugin

Spec == Init /\ [][Next]_vars

\* Discovery: the policy setters, the two discovery calls and demand loading.
NextDiscovery ==
    \/ plugrack_set_major_type
    \/ plugrack_set_paranoia
    \/ plugrack_add_plugin_file
    \/ plugrack_read_dir
    \/ plugrack_use_by_type
    \/ plugrack_finished_with_plugin

SpecDiscovery == Init /\ [][NextDiscovery]_vars

(***************************************************************************)
(* Discovery of files named by unusual paths: a file of the root            *)
(* directory, a path without a directory part, a path of no node, and a    *)
(* scan of the root directory.                                             *)
(***************************************************************************)
add_plugin_file_root ==
    /\ alive
    /\ refBefore' = 0
    /\ UNCHANGED <<verdict, threadVars, filterVars, family, luaVars, updateVars>>
    /\ \E fq_path \in RootFilePaths :
        LET r == AddFileStep(entries, major_type, paranoia, uid, fq_path)
        IN /\ Effect(r)
           /\ lastOp' = Call("add_plugin_file", fq_path, r.rc, r.calls)
           /\ UNCHANGED <<alive, major_type, uid, paranoia, callerVars>>

read_dir_root ==
    /\ alive
    /\ refBefore' = 0
    /\ UNCHANGED <<verdict, threadVars, filterVars, family, luaVars, updateVars>>
    /\ \E dir \in RootDirPaths :
        LET r == ReadDirStep(entries, major_type, paranoia, uid, dir)
        IN /\ Effect(r)
           /\ lastOp' = Call("read_dir", dir, r.rc, r.calls)
           /\ UNCHANGED <<alive, major_type, uid, paranoia, callerVars>>

NextPaths ==
    \/ plugrack_create
    \/ plugrack_destroy
    \/ plugrack_set_major_type
    \/ plugrack_set_paranoia
    \/ add_plugin_file_root
    \/ read_dir_root
    \/ plugrack_read_dir

SpecPaths == Init /\ [][NextPaths]_vars

(***************************************************************************)
(* Every rack operation: the caller draws from the lifecycle operations or *)
(* from the discovery and configuration operations, and keeps to the       *)
(* family drawn.                                                           *)
(***************************************************************************)
Families == {"lifecycle", "discovery"}

InitFamilies == InitRack /\ family \in Families /\ NoLua /\ NoUpdates

NextFamilies ==
    \/ family = "lifecycle" /\ Next
    \/ family = "discovery" /\ NextDiscovery

SpecFamilies == InitFamilies /\ [][NextFamilies]_vars

(***************************************************************************)
(* The validator called on its own: accept_path_paranoia for each node,    *)
(* authorized uid and pair of switches its callers pass.                   *)
(***************************************************************************)
ValidatorPaths == { DirD, DirW, DirO, DirN, ComposePath(DirD, <<"a">>),
                    ComposePath(DirD, <<"b">>), ComposePath(DirD, <<"l">>),
                    ComposePath(DirD, <<"g">>) }
ValidatorUids == {500, 501, PLUGRACK_UID_NOBODY}
CheckOwnInputs == {0, PLUGRACK_PARANOIA_DIR_OWN, PLUGRACK_PARANOIA_FILE_OWN}
CheckWriteInputs == {0, PLUGRACK_PARANOIA_DIR_WRITABLE,
                     PLUGRACK_PARANOIA_FILE_WRITABLE}

call_accept_path_paranoia ==
    /\ \E u \in ValidatorUids, fq_path \in ValidatorPaths,
          check_own \in CheckOwnInputs, check_write \in CheckWriteInputs :
          verdict' = [called |-> TRUE, uid |-> u, fq_path |-> fq_path,
                      check_own |-> check_own, check_write |-> check_write,
                      rc |-> IF accept_path_paranoia(u, fq_path, check_own,
                                                     check_write)
                             THEN 1 ELSE 0]
    /\ UNCHANGED <<alive, entries, major_type, uid, paranoia, opens, held,
                   disciplined, refused, lastOp, refBefore, threadVars,
                   filterVars, family, luaVars, updateVars>>

NextValidator == call_accept_path_paranoia

SpecValidator == Init /\ [][NextValidator]_vars

(***************************************************************************)
(* Two threads calling into one rack.  plugrack.c takes no lock, so a call *)
(* is a sequence of reads and writes of the shared entries and of loader   *)
(* calls, interleaved with the other thread's.  Each thread makes one call; *)
(* pc is the place the thread has reached in it, loc its call and locals.  *)
(***************************************************************************)
ThreadCalls == { [op |-> "use_by_type", type |-> TypeAX],
                 [op |-> "use_by_type", type |-> TypeSY],
                 [op |-> "purge_idle", type |-> TypeNone] }

\* the racks the threads find: /d scanned, its entries loaded or not and
\* with the refcounts earlier calls left
ThreadRacks ==
    { << [Entry(TypeAX, ComposePath(DirD, <<"a">>))
             EXCEPT !.plug = pa, !.refcount = ra],
         [Entry(TypeSY, ComposePath(DirD, <<"b">>))
             EXCEPT !.plug = pb] >> :
        pa \in {PLUGIN_INVALID_HANDLE, HandleOf(ComposePath(DirD, <<"a">>))},
        ra \in {0, 1},
        pb \in {PLUGIN_INVALID_HANDLE, HandleOf(ComposePath(DirD, <<"b">>))} }

\* the loader when the modules of the loaded entries are open once each
OpensOf(es) ==
    [h \in Handles |-> IF \E i \in 1..Len(es) : es[i].plug = h THEN 1 ELSE 0]

InitThreads ==
    /\ alive = TRUE
    /\ major_type = NULL
    /\ uid = PLUGRACK_UID_NOBODY
    /\ paranoia = PLUGRACK_PARANOIA_NONE
    /\ held = EmptyBag
    /\ disciplined = TRUE
    /\ refused = FALSE
    /\ lastOp = Call("create", NULL, SLURM_SUCCESS, <<>>)
    /\ refBefore = 0
    /\ verdict = NoVerdict
    /\ NoFilter
    /\ family = "any"
    /\ NoLua
    /\ NoUpdates
    /\ \E es \in ThreadRacks :
          /\ entries = es
          /\ opens = OpensOf(es)
          /\ start = [entries |-> es, opens |-> OpensOf(es)]
    /\ \E calls \in [Threads -> ThreadCalls] :
          /\ loc = [t \in Threads |->
                       [NoLocal EXCEPT !.op = calls[t].op,
                                       !.type = calls[t].type]]
          /\ pc = [t \in Threads |-> calls[t].op]
    /\ ret = [t \in Threads |-> 0]

\* what a thread's step leaves alone
ThreadFrame ==
    UNCHANGED <<alive, major_type, uid, paranoia, held, disciplined, refused,
                lastOp, refBefore, verdict, start, filterVars, family,
                luaVars, updateVars>>

\* plugrack_use_by_type: the list iteration up to the entry of the type
use_by_type_find(t) ==
    /\ pc[t] = "use_by_type"
    /\ LET i == FirstByType(entries, loc[t].type) IN
       IF i = 0
       THEN /\ ret' = [ret EXCEPT ![t] = PLUGIN_INVALID_HANDLE]
            /\ pc' = [pc EXCEPT ![t] = "done"]
            /\ UNCHANGED loc
       ELSE /\ loc' = [loc EXCEPT ![t].i = i]
            /\ pc' = [pc EXCEPT ![t] = "use_loaded"]
            /\ UNCHANGED ret
    /\ UNCHANGED <<entries, opens>>
    /\ ThreadFrame

\* if ( e->plug == PLUGIN_INVALID_HANDLE )
use_by_type_loaded(t) ==
    /\ pc[t] = "use_loaded"
    /\ pc' = [pc EXCEPT ![t] =
                 IF entries[loc[t].i].plug = PLUGIN_INVALID_HANDLE
                 THEN "use_load" ELSE "use_success"]
    /\ UNCHANGED <<entries, opens, loc, ret>>
    /\ ThreadFrame

\* plugin_load_from_file( e->fq_path )
use_by_type_load(t) ==
    /\ pc[t] = "use_load"
    /\ \E ok \in BOOLEAN :
          LET path == entries[loc[t].i].fq_path
              plug == plugin_load_from_file(path, ok)
          IN /\ opens' = LoaderAfterCall(opens, LoadCall(path, plug))
             /\ loc' = [loc EXCEPT ![t].plug = plug]
    /\ pc' = [pc EXCEPT ![t] = "use_store"]
    /\ UNCHANGED <<entries, ret>>
    /\ ThreadFrame

\* e->plug = (the handle the load returned)
use_by_type_store(t) ==
    /\ pc[t] = "use_store"
    /\ entries' = [entries EXCEPT ![loc[t].i].plug = loc[t].plug]
    /\ pc' = [pc EXCEPT ![t] = "use_success"]
    /\ UNCHANGED <<opens, loc, ret>>
    /\ ThreadFrame

\* if ( e->plug == PLUGIN_INVALID_HANDLE ), before e->refcount++
use_by_type_success(t) ==
    /\ pc[t] = "use_success"
    /\ pc' = [pc EXCEPT ![t] =
                 IF entries[loc[t].i].plug = PLUGIN_INVALID_HANDLE
                 THEN "use_read" ELSE "use_return"]
    /\ UNCHANGED <<entries, opens, loc, ret>>
    /\ ThreadFrame

\* e->refcount++: the read
use_by_type_read(t) ==
    /\ pc[t] = "use_read"
    /\ loc' = [loc EXCEPT ![t].refcount = entries[loc[t].i].refcount]
    /\ pc' = [pc EXCEPT ![t] = "use_write"]
    /\ UNCHANGED <<entries, opens, ret>>
    /\ ThreadFrame

\* e->refcount++: the write
use_by_type_write(t) ==
    /\ pc[t] = "use_write"
    /\ entries' = [entries EXCEPT ![loc[t].i].refcount = loc[t].refcount + 1]
    /\ pc' = [pc EXCEPT ![t] = "use_return"]
    /\ UNCHANGED <<opens, loc, ret>>
    /\ ThreadFrame

\* return e->plug
use_by_type_return(t) ==
    /\ pc[t] = "use_return"
    /\ ret' = [ret EXCEPT ![t] = entries[loc[t].i].plug]
    /\ pc' = [pc EXCEPT ![t] = "done"]
    /\ UNCHANGED <<entries, opens, loc>>
    /\ ThreadFrame

\* plugrack_purge_idle: list_next, and the return after the last entry
purge_idle_next(t) ==
    /\ pc[t] = "purge_idle"
    /\ IF loc[t].i + 1 > Len(entries)
       THEN /\ ret' = [ret EXCEPT ![t] = SLURM_SUCCESS]
            /\ pc' = [pc EXCEPT ![t] = "done"]
            /\ UNCHANGED loc
       ELSE /\ loc' = [loc EXCEPT ![t].i = @ + 1]
            /\ pc' = [pc EXCEPT ![t] = "purge_idle_test"]
            /\ UNCHANGED ret
    /\ UNCHANGED <<entries, opens>>
    /\ ThreadFrame

\* if ( e->plug != PLUGIN_INVALID_HANDLE && e->refcount == 0 )
purge_idle_test(t) ==
    /\ pc[t] = "purge_idle_test"
    /\ pc' = [pc EXCEPT ![t] =
                 IF /\ entries[loc[t].i].plug # PLUGIN_INVALID_HANDLE
                    /\ entries[loc[t].i].refcount = 0
                 THEN "purge_idle_unload" ELSE "purge_idle"]
    /\ UNCHANGED <<entries, opens, loc, ret>>
    /\ ThreadFrame

\* plugin_unload( e->plug )
purge_idle_unload(t) ==
    /\ pc[t] = "purge_idle_unload"
    /\ opens' = LoaderAfterCall(opens, UnloadCall(entries[loc[t].i].plug))
    /\ pc' = [pc EXCEPT ![t] = "purge_idle_clear"]
    /\ UNCHANGED <<entries, loc, ret>>
    /\ ThreadFrame

\* e->plug = PLUGIN_INVALID_HANDLE
purge_idle_clear(t) ==
    /\ pc[t] = "purge_idle_clear"
    /\ entries' = [entries EXCEPT ![loc[t].i].plug = PLUGIN_INVALID_HANDLE]
    /\ pc' = [pc EXCEPT ![t] = "purge_idle"]
    /\ UNCHANGED <<opens, loc, ret>>
    /\ ThreadFrame

NextThreads ==
    \E t \in Threads :
        \/ use_by_type_find(t)
        \/ use_by_type_loaded(t)
        \/ use_by_type_load(t)
        \/ use_by_type_store(t)
        \/ use_by_type_success(t)
        \/ use_by_type_read(t)
        \/ use_by_type_write(t)
        \/ use_by_type_return(t)
        \/ purge_idle_next(t)
        \/ purge_idle_test(t)
        \/ purge_idle_unload(t)
        \/ purge_idle_clear(t)

SpecThreads == InitThreads /\ [][NextThreads]_vars

(***************************************************************************)
(* The cli_filter driver: one process calling init, fini, reconfig,        *)
(* pre_submit and post_submit, and a configuration that can change between *)
(* the calls.  Strings are sequences of characters.                        *)
(***************************************************************************)
\* "cli_filter/"
FilterPrefix == <<"c", "l", "i", "_", "f", "i", "l", "t", "e", "r", "/">>

\* the most plugins a configuration of ConfInputs names
MaxPlugins == 2

\* CliFilterPlugins values: unset, empty, two plugins, two plugins with an
\* empty field between them, the old spelling with the prefix, the same
\* plugin twice, and a list whose second plugin is not installed
ConfInputs ==
    { NULL, <<>>, <<"p", ",", "q">>, <<"q", ",", ",", "p">>,
      FilterPrefix \o <<"p">>, <<"p", ",", "p">>, <<"p", ",", "x">> }

\* the plugins plugin_context_create finds and whose symbols resolve
InstalledFilters == { FilterPrefix \o <<"p">>, FilterPrefix \o <<"q">> }

\* what a pre_submit/post_submit callback, and what plugin_context_destroy,
\* may return
CallbackRcs == {SLURM_SUCCESS, SLURM_ERROR, 2}
DestroyRcs == {SLURM_SUCCESS, SLURM_ERROR}

\* slurm_get_cli_filter_plugins: a copy of the configured list
slurm_get_cli_filter_plugins(c) == c

\* the end of the token that starts at s[1]
TokenEnd(s) ==
    CHOOSE k \in 1..Len(s) :
        /\ \A j \in 1..k : s[j] # ","
        /\ k = Len(s) \/ s[k + 1] = ","

\* strtok_r( names, ",", &last ) called until it returns NULL: the tokens
RECURSIVE strtok_r(_)
strtok_r(s) ==
    IF s = <<>> THEN <<>>
    ELSE IF Head(s) = "," THEN strtok_r(Tail(s))
    ELSE <<SubSeq(s, 1, TokenEnd(s))>>
             \o strtok_r(SubSeq(s, TokenEnd(s) + 1, Len(s)))

\* the string clifilter_plugin_list is after strtok_r has written a NUL at
\* the end of the first token
RECURSIVE AfterStrtok(_)
AfterStrtok(s) ==
    IF s = <<>> THEN <<>>
    ELSE IF Head(s) = "," THEN <<",">> \o AfterStrtok(Tail(s))
    ELSE SubSeq(s, 1, TokenEnd(s))

\* if (xstrncmp(type, "cli_filter/", 11) == 0) type += 11;
\* type = xstrdup_printf("cli_filter/%s", type);
FilterType(type) ==
    FilterPrefix \o
        (IF Len(type) >= 11 /\ SubSeq(type, 1, 11) = FilterPrefix
         THEN SubSeq(type, 12, Len(type))
         ELSE type)

\* plugin_context_create: the context, or NULL
plugin_context_create(type) ==
    IF type \in InstalledFilters THEN type ELSE NULL

\* the function table plugin_context_create fills for a plugin
FilterOps(type) == [pre_submit |-> <<type, "pre_submit">>,
                    post_submit |-> <<type, "post_submit">>]

Driver == [clifilter_plugin_list |-> clifilter_plugin_list,
           g_context_cnt |-> g_context_cnt, g_context |-> g_context,
           ops |-> ops, init_run |-> init_run]

FilterResult(d, rc, created, destroyed) ==
    [d |-> d, rc |-> rc, created |-> created, destroyed |-> destroyed]

\* cli_filter_plugin_fini; drcs[i] is what plugin_context_destroy returns
\* for context i
FiniStep(d, drcs) ==
    IF d.g_context_cnt < 0 THEN FilterResult(d, SLURM_SUCCESS, <<>>, <<>>)
    ELSE LET bad == {i \in 1..d.g_context_cnt : drcs[i] # SLURM_SUCCESS}
         IN FilterResult(
                NoDriver,
                IF bad = {} THEN SLURM_SUCCESS
                ELSE drcs[CHOOSE i \in bad : \A j \in bad : j <= i],
                <<>>,
                [i \in 1..d.g_context_cnt |->
                    [type |-> d.g_context[i], rc |-> drcs[i]]])

\* the while loop of cli_filter_plugin_init over the tokens from token i on
RECURSIVE InitLoop(_, _, _, _)
InitLoop(tokens, i, d, created) ==
    IF i > Len(tokens) THEN FilterResult(d, SLURM_SUCCESS, created, <<>>)
    ELSE LET type == FilterType(tokens[i])
             ctx == plugin_context_create(type)
         IN IF ctx = NULL
            THEN FilterResult(d, SLURM_ERROR,
                              Append(created, [type |-> type, ok |-> FALSE]),
                              <<>>)
            ELSE InitLoop(tokens, i + 1,
                          [d EXCEPT !.g_context = Append(@, ctx),
                                    !.ops = Append(@, FilterOps(type)),
                                    !.g_context_cnt = @ + 1],
                          Append(created, [type |-> type, ok |-> TRUE]))

\* cli_filter_plugin_init between its lock and its unlock, without the
\* test of g_context_cnt
InitLockedAlways(d, c) ==
    LET list == slurm_get_cli_filter_plugins(c)
        d0 == [d EXCEPT !.clifilter_plugin_list = list,
                        !.g_context_cnt = 0,
                        !.g_context = <<>>, !.ops = <<>>]
    IN IF list = NULL \/ list = <<>>
       THEN FilterResult(d0, SLURM_SUCCESS, <<>>, <<>>)
       ELSE LET l == InitLoop(strtok_r(list), 1, d0, <<>>)
            IN FilterResult([l.d EXCEPT !.clifilter_plugin_list =
                                            AfterStrtok(list),
                                        !.init_run = TRUE],
                            l.rc, l.created, <<>>)

\* cli_filter_plugin_init between its lock and its unlock, reading the
\* configured list c
InitLocked(d, c) ==
    IF d.g_context_cnt >= 0
    THEN FilterResult(d, SLURM_SUCCESS, <<>>, <<>>)
    ELSE LET list == slurm_get_cli_filter_plugins(c)
             d0 == [d EXCEPT !.clifilter_plugin_list = list,
                             !.g_context_cnt = 0]
         IN IF list = NULL \/ list = <<>>
            THEN FilterResult(d0, SLURM_SUCCESS, <<>>, <<>>)
            ELSE LET l == InitLoop(strtok_r(list), 1, d0, <<>>)
                 IN FilterResult([l.d EXCEPT !.clifilter_plugin_list =
                                                 AfterStrtok(list),
                                             !.init_run = TRUE],
                                 l.rc, l.created, <<>>)

\* cli_filter_plugin_init that does not call cli_filter_plugin_fini when a
\* context cannot be created
InitStepNoCleanup(d, c, drcs) ==
    IF d.init_run /\ d.g_context_cnt >= 0
    THEN FilterResult(d, SLURM_SUCCESS, <<>>, <<>>)
    ELSE InitLocked(d, c)

\* cli_filter_plugin_init reading the configured list c
InitStep(d, c, drcs) ==
    IF d.init_run /\ d.g_context_cnt >= 0
    THEN FilterResult(d, SLURM_SUCCESS, <<>>, <<>>)
    ELSE LET l == InitLocked(d, c)
         IN IF l.rc # SLURM_SUCCESS
            THEN LET f == FiniStep(l.d, drcs)
                 IN FilterResult(f.d, l.rc, l.created, f.destroyed)
            ELSE l

\* cli_filter_plugin_reconfig
ReconfigStep(d, c, drcs) ==
    LET plugin_names == slurm_get_cli_filter_plugins(c) IN
    IF plugin_names = NULL /\ d.clifilter_plugin_list = NULL
    THEN FilterResult(d, SLURM_SUCCESS, <<>>, <<>>)
    ELSE IF /\ plugin_names # NULL
            /\ d.clifilter_plugin_list # NULL
            /\ plugin_names # d.clifilter_plugin_list
    THEN LET f == FiniStep(d, drcs) IN
         IF f.rc = SLURM_SUCCESS
         THEN LET n == InitStep(f.d, c, drcs)
              IN FilterResult(n.d, n.rc, n.created,
                              f.destroyed \o n.destroyed)
         ELSE f
    ELSE FilterResult(d, SLURM_SUCCESS, <<>>, <<>>)

\* the callback loop that calls every plugin, whatever the ones before it
\* returned
RECURSIVE DispatchAll(_, _, _, _, _, _)
DispatchAll(d, sym, i, rc, rcs, invoked) ==
    IF i < d.g_context_cnt
    THEN DispatchAll(d, sym, i + 1, rcs[i + 1], rcs,
                     Append(invoked, [fn |-> d.ops[i + 1][sym],
                                      rc |-> rcs[i + 1]]))
    ELSE [rc |-> rc, invoked |-> invoked]

\* for (i = 0; ((i < g_context_cnt) && (rc == SLURM_SUCCESS)); i++)
\*         rc = (*(ops[i].pre_submit))(...);
\* rcs[i + 1] is what the callback of ops[i] returns when it is called
RECURSIVE Dispatch(_, _, _, _, _, _)
Dispatch(d, sym, i, rc, rcs, invoked) ==
    IF i < d.g_context_cnt /\ rc = SLURM_SUCCESS
    THEN Dispatch(d, sym, i + 1, rcs[i + 1], rcs,
                  Append(invoked, [fn |-> d.ops[i + 1][sym],
                                   rc |-> rcs[i + 1]]))
    ELSE [rc |-> rc, invoked |-> invoked]

\* cli_filter_plugin_pre_submit / cli_filter_plugin_post_submit
SubmitStep(d, sym, c, rcs, drcs) ==
    LET n == InitStep(d, c, drcs)
        l == Dispatch(n.d, sym, 0, n.rc, rcs, <<>>)
    IN [d |-> n.d, rc |-> l.rc, created |-> n.created,
        destroyed |-> n.destroyed, invoked |-> l.invoked]

\* the statics after a call
DriverEffect(d) ==
    /\ clifilter_plugin_list' = d.clifilter_plugin_list
    /\ g_context_cnt' = d.g_context_cnt
    /\ g_context' = d.g_context
    /\ ops' = d.ops
    /\ init_run' = d.init_run

\* what a call of the driver leaves alone
FilterFrame ==
    UNCHANGED <<alive, entries, major_type, uid, paranoia, opens, held,
                disciplined, refused, lastOp, refBefore, verdict, threadVars,
                family, g_context_lock, luaVars, updateVars>>

\* the configuration is changed
set_cli_filter_plugins ==
    /\ \E c \in ConfInputs : c # conf /\ conf' = c
    /\ UNCHANGED <<clifilter_plugin_list, g_context_cnt, g_context, ops,
                   init_run, filterOp>>
    /\ FilterFrame

cli_filter_plugin_init ==
    /\ \E drcs \in [1..MaxPlugins -> DestroyRcs] :
          LET r == InitStep(Driver, conf, drcs)
          IN /\ DriverEffect(r.d)
             /\ filterOp' = [op |-> "init", rc |-> r.rc,
                             created |-> r.created,
                             destroyed |-> r.destroyed, invoked |-> <<>>]
    /\ UNCHANGED conf
    /\ FilterFrame

cli_filter_plugin_fini ==
    /\ \E drcs \in [1..MaxPlugins -> DestroyRcs] :
          LET r == FiniStep(Driver, drcs)
          IN /\ DriverEffect(r.d)
             /\ filterOp' = [op |-> "fini", rc |-> r.rc,
                             created |-> r.created,
                             destroyed |-> r.destroyed, invoked |-> <<>>]
    /\ UNCHANGED conf
    /\ FilterFrame

cli_filter_plugin_reconfig ==
    /\ \E drcs \in [1..MaxPlugins -> DestroyRcs] :
          LET r == ReconfigStep(Driver, conf, drcs)
          IN /\ DriverEffect(r.d)
             /\ filterOp' = [op |-> "reconfig", rc |-> r.rc,
                             created |-> r.created,
                             destroyed |-> r.destroyed, invoked |-> <<>>]
    /\ UNCHANGED conf
    /\ FilterFrame

cli_filter_plugin_pre_submit ==
    /\ \E rcs \in [1..MaxPlugins -> CallbackRcs],
          drcs \in [1..MaxPlugins -> DestroyRcs] :
          LET r == SubmitStep(Driver, "pre_submit", conf, rcs, drcs)
          IN /\ DriverEffect(r.d)
             /\ filterOp' = [op |-> "pre_submit", rc |-> r.rc,
                             created |-> r.created,
                             destroyed |-> r.destroyed,
                             invoked |-> r.invoked]
    /\ UNCHANGED conf
    /\ FilterFrame

cli_filter_plugin_post_submit ==
    /\ \E rcs \in [1..MaxPlugins -> CallbackRcs],
          drcs \in [1..MaxPlugins -> DestroyRcs] :
          LET r == SubmitStep(Driver, "post_submit", conf, rcs, drcs)
          IN /\ DriverEffect(r.d)
             /\ filterOp' = [op |-> "post_submit", rc |-> r.rc,
                             created |-> r.created,
                             destroyed |-> r.destroyed,
                             invoked |-> r.invoked]
    /\ UNCHANGED conf
    /\ FilterFrame

NextFilter ==
    \/ set_cli_filter_plugins
    \/ cli_filter_plugin_init
    \/ cli_filter_plugin_fini
    \/ cli_filter_plugin_reconfig
    \/ cli_filter_plugin_pre_submit
    \/ cli_filter_plugin_post_submit

SpecFilter == Init /\ [][NextFilter]_vars

(***************************************************************************)
(* The cli_filter driver called by two threads.  A step is what a thread   *)
(* does between two operations on g_context_lock, a read of the statics    *)
(* made without the lock, or the run of one callback; a callback and the   *)
(* teardown of fini each take two steps, so that a thread can be seen in   *)
(* the middle of them.                                                     *)
(***************************************************************************)
FilterCalls == {"init", "fini", "reconfig", "pre_submit"}

\* the configurations the threads run under
ThreadConfs == { <<"p", ",", "q">>, <<"p", ",", "x">> }

NoFilterLocal == [op |-> "none", stage |-> "none", rc |-> SLURM_SUCCESS,
                  frc |-> SLURM_SUCCESS, i |-> 0, change |-> FALSE,
                  names |-> NULL, inited |-> FALSE, n |-> 0,
                  created |-> <<>>,
                  destroyed |-> <<>>, invoked |-> <<>>]

InitFilterThreads ==
    /\ refBefore = 0
    /\ verdict = NoVerdict
    /\ alive = TRUE
    /\ entries = <<>>
    /\ major_type = NULL
    /\ uid = PLUGRACK_UID_NOBODY
    /\ paranoia = PLUGRACK_PARANOIA_NONE
    /\ opens = [h \in Handles |-> 0]
    /\ held = EmptyBag
    /\ disciplined = TRUE
    /\ refused = FALSE
    /\ lastOp = Call("create", NULL, SLURM_SUCCESS, <<>>)
    /\ family = "any"
    /\ NoLua
    /\ NoUpdates
    /\ start = [entries |-> <<>>, opens |-> [h \in Handles |-> 0]]
    /\ conf \in ThreadConfs
    /\ clifilter_plugin_list = NoDriver.clifilter_plugin_list
    /\ g_context_cnt = NoDriver.g_context_cnt
    /\ g_context = NoDriver.g_context
    /\ ops = NoDriver.ops
    /\ init_run = NoDriver.init_run
    /\ g_context_lock = 0
    /\ filterOp = NoFilterOp
    /\ pc = [t \in Threads |-> "idle"]
    /\ loc = [t \in Threads |-> NoFilterLocal]
    /\ ret = [t \in Threads |-> NoFilterLocal]

\* what a step of a thread in the driver leaves alone
FilterThreadFrame ==
    UNCHANGED <<alive, entries, major_type, uid, paranoia, opens, held,
                disciplined, refused, lastOp, refBefore, verdict, start,
                family, conf, filterOp, luaVars, updateVars>>

Statics == <<clifilter_plugin_list, g_context_cnt, g_context, ops, init_run>>

\* slurm_mutex_lock that does not wait for the holder
slurm_mutex_lock_nowait(t) == g_context_lock' = t

\* slurm_mutex_lock(&g_context_lock)
slurm_mutex_lock(t) == g_context_lock = 0 /\ g_context_lock' = t

\* slurm_mutex_unlock(&g_context_lock)
slurm_mutex_unlock(t) == g_context_lock' = 0

\* the thread goes to label l with the locals v
Goto(t, l, v) ==
    /\ pc' = [pc EXCEPT ![t] = l]
    /\ loc' = [loc EXCEPT ![t] = v]
    /\ UNCHANGED ret

\* the call of the thread returns rc; ret keeps the call, what it returned,
\* what its initialisation did and the callbacks it ran
Return(t, v, rc) ==
    /\ pc' = [pc EXCEPT ![t] = "idle"]
    /\ loc' = [loc EXCEPT ![t] = NoFilterLocal]
    /\ ret' = [ret EXCEPT ![t] =
                  [NoFilterLocal EXCEPT !.op = v.op, !.rc = rc,
                                        !.inited = v.inited, !.n = v.n,
                                        !.created = v.created,
                                        !.invoked = v.invoked]]

\* cli_filter_plugin_init has returned rc to its caller; inited and n note
\* for pre_submit that it succeeded, and with how many plugins loaded
InitReturn(t, v, rc) ==
    IF v.op = "pre_submit"
    THEN Goto(t, "submit_lock",
              [v EXCEPT !.rc = rc, !.inited = (rc = SLURM_SUCCESS),
                        !.n = IF rc = SLURM_SUCCESS THEN g_context_cnt
                              ELSE 0])
    ELSE Return(t, v, rc)

\* cli_filter_plugin_fini has returned frc to its caller
FiniReturn(t, v, frc) ==
    IF v.op = "fini" THEN Return(t, v, frc)
    ELSE IF v.stage = "reconfig_fini"
    THEN IF frc = SLURM_SUCCESS
         THEN Goto(t, "init_check", [v EXCEPT !.stage = "init", !.rc = frc])
         ELSE Return(t, v, frc)
    ELSE InitReturn(t, v, v.rc)

\* a thread enters a call
filter_call(t) ==
    /\ pc[t] = "idle"
    /\ \E op \in FilterCalls :
          /\ pc' = [pc EXCEPT ![t] = CASE op = "fini" -> "fini_lock"
                                      [] op = "reconfig" -> "reconfig_read"
                                      [] OTHER -> "init_check"]
          /\ loc' = [loc EXCEPT ![t] =
                        [NoFilterLocal EXCEPT
                            !.op = op,
                            !.stage = IF op = "fini" THEN "fini"
                                      ELSE IF op = "reconfig"
                                      THEN "reconfig" ELSE "init"]]
          /\ ret' = [ret EXCEPT ![t] = NoFilterLocal]
    /\ UNCHANGED <<Statics, g_context_lock>>
    /\ FilterThreadFrame

\* if (init_run && (g_context_cnt >= 0)) return rc;
init_check(t) ==
    /\ pc[t] = "init_check"
    /\ IF init_run /\ g_context_cnt >= 0
       THEN InitReturn(t, loc[t], SLURM_SUCCESS)
       ELSE Goto(t, "init_lock", loc[t])
    /\ UNCHANGED <<Statics, g_context_lock>>
    /\ FilterThreadFrame

\* cli_filter_plugin_init from its lock to the label fini
init_lock(t) ==
    /\ pc[t] = "init_lock"
    /\ slurm_mutex_lock(t)
    /\ LET r == InitLocked(Driver, conf)
       IN /\ DriverEffect(r.d)
          /\ Goto(t, "init_unlock",
                  [loc[t] EXCEPT !.rc = r.rc, !.created = r.created])
    /\ FilterThreadFrame

\* slurm_mutex_unlock; if (rc != SLURM_SUCCESS) cli_filter_plugin_fini();
init_unlock(t) ==
    /\ pc[t] = "init_unlock"
    /\ slurm_mutex_unlock(t)
    /\ IF loc[t].rc # SLURM_SUCCESS
       THEN Goto(t, "fini_lock", [loc[t] EXCEPT !.stage = "init_fini"])
       ELSE InitReturn(t, loc[t], loc[t].rc)
    /\ UNCHANGED Statics
    /\ FilterThreadFrame

\* cli_filter_plugin_fini: the lock, the test of g_context_cnt, init_run
\* = false and the loop of plugin_context_destroy
fini_lock(t) ==
    /\ pc[t] = "fini_lock"
    /\ slurm_mutex_lock(t)
    /\ IF g_context_cnt < 0
       THEN /\ Goto(t, "fini_unlock", [loc[t] EXCEPT !.frc = SLURM_SUCCESS])
            /\ UNCHANGED Statics
       ELSE \E drcs \in [1..MaxPlugins -> DestroyRcs] :
              LET f == FiniStep(Driver, drcs)
              IN /\ Goto(t, "fini_free",
                         [loc[t] EXCEPT !.frc = f.rc,
                                        !.destroyed = f.destroyed])
                 /\ init_run' = FALSE
                 /\ UNCHANGED <<clifilter_plugin_list, g_context_cnt,
                                g_context, ops>>
    /\ FilterThreadFrame

\* xfree(ops); xfree(g_context); xfree(clifilter_plugin_list);
\* g_context_cnt = -1;
fini_free(t) ==
    /\ pc[t] = "fini_free"
    /\ DriverEffect(NoDriver)
    /\ Goto(t, "fini_unlock", loc[t])
    /\ UNCHANGED g_context_lock
    /\ FilterThreadFrame

fini_unlock(t) ==
    /\ pc[t] = "fini_unlock"
    /\ slurm_mutex_unlock(t)
    /\ FiniReturn(t, loc[t], loc[t].frc)
    /\ UNCHANGED Statics
    /\ FilterThreadFrame

\* char *plugin_names = slurm_get_cli_filter_plugins();
\* if (!plugin_names && !clifilter_plugin_list) return rc;
reconfig_read(t) ==
    /\ pc[t] = "reconfig_read"
    /\ LET plugin_names == slurm_get_cli_filter_plugins(conf)
       IN IF plugin_names = NULL /\ clifilter_plugin_list = NULL
          THEN Return(t, loc[t], SLURM_SUCCESS)
          ELSE Goto(t, "reconfig_lock", [loc[t] EXCEPT !.names = plugin_names])
    /\ UNCHANGED <<Statics, g_context_lock>>
    /\ FilterThreadFrame

\* the comparison of the lists under the lock
reconfig_lock(t) ==
    /\ pc[t] = "reconfig_lock"
    /\ slurm_mutex_lock(t)
    /\ Goto(t, "reconfig_unlock",
            [loc[t] EXCEPT !.change = /\ loc[t].names # NULL
                                      /\ clifilter_plugin_list # NULL
                                      /\ loc[t].names # clifilter_plugin_list])
    /\ UNCHANGED Statics
    /\ FilterThreadFrame

\* if (plugin_change) { rc = cli_filter_plugin_fini(); ... }
reconfig_unlock(t) ==
    /\ pc[t] = "reconfig_unlock"
    /\ slurm_mutex_unlock(t)
    /\ IF loc[t].change
       THEN Goto(t, "fini_lock", [loc[t] EXCEPT !.stage = "reconfig_fini"])
       ELSE Return(t, loc[t], SLURM_SUCCESS)
    /\ UNCHANGED Statics
    /\ FilterThreadFrame

\* cli_filter_plugin_pre_submit: slurm_mutex_lock(&g_context_lock)
submit_lock(t) ==
    /\ pc[t] = "submit_lock"
    /\ slurm_mutex_lock(t)
    /\ Goto(t, "submit_loop", [loc[t] EXCEPT !.i = 0])
    /\ UNCHANGED Statics
    /\ FilterThreadFrame

\* the test of the for loop, and the call through ops[i]
submit_loop(t) ==
    /\ pc[t] = "submit_loop"
    /\ IF loc[t].i < g_context_cnt /\ loc[t].rc = SLURM_SUCCESS
       THEN Goto(t, "in_callback", loc[t])
       ELSE Goto(t, "submit_unlock", loc[t])
    /\ UNCHANGED <<Statics, g_context_lock>>
    /\ FilterThreadFrame

\* the callback returns
in_callback(t) ==
    /\ pc[t] = "in_callback"
    /\ \E rc \in CallbackRcs :
          Goto(t, "submit_loop",
               [loc[t] EXCEPT !.rc = rc, !.i = @ + 1,
                              !.invoked =
                                  Append(@, [fn |-> IF loc[t].i < Len(ops)
                                                    THEN ops[loc[t].i + 1].pre_submit
                                                    ELSE <<NULL, "pre_submit">>,
                                             rc |-> rc])])
    /\ UNCHANGED <<Statics, g_context_lock>>
    /\ FilterThreadFrame

submit_unlock(t) ==
    /\ pc[t] = "submit_unlock"
    /\ slurm_mutex_unlock(t)
    /\ Return(t, loc[t], loc[t].rc)
    /\ UNCHANGED Statics
    /\ FilterThreadFrame

NextFilterThreads ==
    \E t \in Threads :
        \/ filter_call(t)
        \/ init_check(t)
        \/ init_lock(t)
        \/ init_unlock(t)
        \/ fini_lock(t)
        \/ fini_free(t)
        \/ fini_unlock(t)
        \/ reconfig_read(t)
        \/ reconfig_lock(t)
        \/ reconfig_unlock(t)
        \/ submit_lock(t)
        \/ submit_loop(t)
        \/ in_callback(t)
        \/ submit_unlock(t)

SpecFilterThreads == InitFilterThreads /\ [][NextFilterThreads]_vars

(***************************************************************************)
(* The cli_filter/lua plugin.  A Lua number is kept in tenths, so that a   *)
(* fraction has a value; a script is what loading its file does and the    *)
(* globals it leaves.                                                      *)
(***************************************************************************)
\* the most Lua states luaL_newstate makes in a run
MaxLuaStates == 2

\* what loading the script file comes to: it cannot be statted, it does not
\* parse, its chunk raises an error, its chunk returns a number other than
\* 0, or its chunk runs and returns nothing
LoadKinds == {"nostat", "syntax", "chunkerror", "nonzero", "run"}

\* what a global of the script is
GlobalKinds == {"nil", "function", "number"}

\* the script files: a file that does not parse leaves no global; any
\* other file may leave either global undefined or slurm_cli_pre_submit a
\* number, also when its chunk fails after the definitions
ScriptInputs ==
    {sc \in [load : LoadKinds, pre : GlobalKinds, setup : GlobalKinds] :
        /\ sc.setup # "number"
        /\ sc.load \in {"nostat", "syntax"} =>
              sc.pre = "nil" /\ sc.setup = "nil"}

\* what a call of a Lua function comes to: an error, or the value returned:
\* the numbers 0, -1, 2.5 and -0.5, the strings "7" and "x", nil, true
LuaError == LuaValue("error", FALSE, 0)
ResultInputs ==
    { LuaError, LuaNil, LuaValue("boolean", FALSE, 0),
      LuaValue("number", TRUE, 0), LuaValue("number", TRUE, -10),
      LuaValue("number", TRUE, 25), LuaValue("number", TRUE, -5),
      LuaValue("string", TRUE, 70), LuaValue("string", FALSE, 0) }

\* lua_isnumber that takes numbers only
lua_isnumber_strict(v) == v.t = "number"

\* lua_isnumber: a number, or a string convertible to a number
lua_isnumber(v) == v.t = "number" \/ (v.t = "string" /\ v.numeric)

\* lua_tonumber, in tenths
lua_tonumber(v) == IF lua_isnumber(v) THEN v.tenths ELSE 0

\* the conversion of a double, in tenths, to int
DoubleToInt(tenths) ==
    IF tenths >= 0 THEN tenths \div 10 ELSE -((-tenths) \div 10)

\* xlua_dlopen
xlua_dlopen == SLURM_SUCCESS

Lua == [L |-> L, states |-> lua_states]

\* L points to a Lua state that is open
StateOpen(m) == m.L # 0 /\ m.states[m.L].open

\* luaL_newstate, luaL_openlibs, luaL_loadfile and lua_pcall of the chunk
NewState(m, sc) ==
    [L |-> Len(m.states) + 1,
     states |-> Append(m.states,
                       [open |-> TRUE,
                        pre |-> IF sc.load = "syntax" THEN "nil" ELSE sc.pre,
                        setup |-> IF sc.load = "syntax" THEN "nil"
                                  ELSE sc.setup])]

\* _check_lua_script_functions
check_lua_script_functions(sc) ==
    IF sc.setup = "function" /\ sc.pre = "function" THEN 0 ELSE -1

\* _load_script
load_script(m, sc) ==
    IF xlua_dlopen # SLURM_SUCCESS THEN [m |-> m, rc |-> xlua_dlopen]
    ELSE IF sc.load = "nostat" THEN [m |-> m, rc |-> SLURM_ERROR]
    ELSE [m |-> NewState(m, sc),
          rc |-> CASE sc.load = "syntax" -> SLURM_ERROR
                   [] sc.load = "chunkerror" -> SLURM_ERROR
                   [] sc.load = "nonzero" -> 1
                   [] OTHER -> check_lua_script_functions(sc)]

\* lua_close(L)
lua_close(m) ==
    IF StateOpen(m) THEN [m EXCEPT !.states[m.L].open = FALSE] ELSE m

\* setup_defaults and pre_submit: _load_script, the global sym of the state
\* L points to, the call of it, lua_close.  undef is what the lookup gives
\* when L is NULL or points to a closed state.
CallStep(m, op, sym, sc, result, undef) ==
    LET l == load_script(m, sc)
        ok == StateOpen(l.m)
        global == IF ok THEN l.m.states[l.m.L][sym] ELSE undef
        rc == IF global = "nil" THEN SLURM_ERROR
              ELSE IF global # "function" \/ result = LuaError THEN SLURM_ERROR
              ELSE IF lua_isnumber(result)
              THEN DoubleToInt(lua_tonumber(result))
              ELSE SLURM_SUCCESS
    IN [m |-> lua_close(l.m),
        o |-> [op |-> op, rc |-> rc, script |-> sc, result |-> result,
               created |-> l.m.L # m.L,
               used_closed |-> ~ok /\ l.m.L # 0,
               used_null |-> l.m.L = 0,
               closed_twice |-> ~ok /\ l.m.L # 0,
               closed_null |-> l.m.L = 0]]

LuaEffect(r) ==
    /\ L' = r.m.L
    /\ lua_states' = r.m.states
    /\ luaOp' = r.o

\* what a call of the plugin leaves alone
LuaFrame ==
    UNCHANGED <<alive, entries, major_type, uid, paranoia, opens, held,
                disciplined, refused, lastOp, refBefore, verdict, threadVars,
                filterVars, family, updateVars>>

init ==
    /\ Len(lua_states) < MaxLuaStates
    /\ \E sc \in ScriptInputs :
          LET l == load_script(Lua, sc)
          IN LuaEffect([m |-> l.m,
                        o |-> [NoLuaOp EXCEPT !.op = "init", !.rc = l.rc,
                                              !.script = sc,
                                              !.created = l.m.L # L]])
    /\ LuaFrame

fini ==
    /\ LuaEffect([m |-> lua_close(Lua),
                  o |-> [NoLuaOp EXCEPT !.op = "fini",
                                        !.closed_twice = ~StateOpen(Lua)
                                                         /\ L # 0,
                                        !.closed_null = L = 0]])
    /\ LuaFrame

setup_defaults ==
    /\ Len(lua_states) < MaxLuaStates
    /\ \E sc \in ScriptInputs, result \in ResultInputs,
          undef \in GlobalKinds :
          LuaEffect(CallStep(Lua, "setup_defaults", "setup", sc, result,
                             undef))
    /\ LuaFrame

pre_submit ==
    /\ Len(lua_states) < MaxLuaStates
    /\ \E sc \in ScriptInputs, result \in ResultInputs,
          undef \in GlobalKinds :
          LuaEffect(CallStep(Lua, "pre_submit", "pre", sc, result, undef))
    /\ LuaFrame

post_submit ==
    /\ luaOp' = [NoLuaOp EXCEPT !.op = "post_submit"]
    /\ UNCHANGED <<L, lua_states>>
    /\ LuaFrame

NextLua ==
    \/ init
    \/ fini
    \/ setup_defaults
    \/ pre_submit
    \/ post_submit

SpecLua == Init /\ [][NextLua]_vars

(***************************************************************************)
(* The update list of the accounting storage.  The list holds update       *)
(* objects, each a type and a list of objects; an object is the number of  *)
(* the call that handed it in, so that the order of addition shows.        *)
(***************************************************************************)
\* the most calls of addto_update_list in a run
MaxUpdates == 4

\* the update types the calls use: three the switch knows, with the
\* destructor of their objects list, and two it does not
KnownTypes == {"SLURMDB_ADD_USER", "SLURMDB_MODIFY_ASSOC",
               "SLURMDB_REMOVE_QOS"}
UnknownTypes == {"SLURMDB_UPDATE_NOTSET", "unrecognised"}
UpdateTypes == KnownTypes \cup UnknownTypes

\* a List that is NULL, and list_create(f)
NullList == [null |-> TRUE, destroy |-> "none", items |-> <<>>]
list_create(f) == [null |-> FALSE, destroy |-> f, items |-> <<>>]

\* list_append and list_prepend on a List that is not NULL
list_append(l, x) == [l EXCEPT !.items = Append(@, x)]
list_prepend(l, x) == [l EXCEPT !.items = <<x>> \o @]

\* the destructor the switch of addto_update_list gives the objects list
Destructor(type) ==
    CASE type = "SLURMDB_ADD_USER" -> "slurmdb_destroy_user_rec"
      [] type = "SLURMDB_MODIFY_ASSOC" -> "slurmdb_destroy_association_rec"
      [] type = "SLURMDB_REMOVE_QOS" -> "slurmdb_destroy_qos_rec"

\* _sort_update_object_dec with the arguments the other way round
sort_update_object_inc(a, b) ==
    IF a.type = "SLURMDB_MODIFY_ASSOC" /\ b.type # "SLURMDB_MODIFY_ASSOC"
    THEN -1
    ELSE IF b.type = "SLURMDB_MODIFY_ASSOC"
            /\ a.type # "SLURMDB_MODIFY_ASSOC"
    THEN 1
    ELSE 0

\* _sort_update_object_dec
sort_update_object_dec(a, b) ==
    IF a.type = "SLURMDB_MODIFY_ASSOC" /\ b.type # "SLURMDB_MODIFY_ASSOC"
    THEN 1
    ELSE IF b.type = "SLURMDB_MODIFY_ASSOC"
            /\ a.type # "SLURMDB_MODIFY_ASSOC"
    THEN -1
    ELSE 0

\* list_sort(l, f): every order of the elements of l in which no element
\* stands before one that f puts before it
list_sort(l) ==
    LET n == Len(l)
        Orders == {p \in [1..n -> 1..n] :
                     \A i, j \in 1..n : i # j => p[i] # p[j]}
    IN {[i \in 1..n |-> l[p[i]]] : p \in
          {q \in Orders :
             \A i, j \in 1..n :
                i < j => sort_update_object_dec(l[q[i]], l[q[j]]) <= 0}}

\* the update object of the list with the type, as the iterator finds it:
\* its index, 0 when there is none
FindUpdateObject(l, type) ==
    IF \E i \in 1..Len(l) : l[i].type = type
    THEN CHOOSE i \in 1..Len(l) :
            /\ l[i].type = type
            /\ \A j \in 1..(i - 1) : l[j].type # type
    ELSE 0

\* addto_update_list(update_list, type, object): the lists it may leave
\* (list_sort decides among them), each with the return code.  A second
\* call with a type the switch does not know finds the update object the
\* first call left and hands its NULL objects list to list_prepend, which
\* ends the process.
AddtoOutcomes(l, given, type, object) ==
    LET at == FindUpdateObject(l, type)
        Out(list, rc, crashed) ==
            [list |-> list, rc |-> rc, crashed |-> crashed]
    IN IF ~given THEN {Out(l, SLURM_ERROR, FALSE)}
       ELSE IF at # 0
       THEN IF l[at].objects.null
            THEN {Out(l, SLURM_ERROR, TRUE)}
            ELSE {Out([l EXCEPT ![at].objects = list_prepend(@, object)],
                      SLURM_SUCCESS, FALSE)}
       ELSE LET appended == Append(l, [type |-> type, objects |-> NullList])
            IN IF type \in KnownTypes
               THEN {Out([i \in 1..Len(s) |->
                            IF s[i].type = type
                            THEN [s[i] EXCEPT !.objects =
                                    list_append(list_create(Destructor(type)),
                                                object)]
                            ELSE s[i]],
                         SLURM_SUCCESS, FALSE) : s \in list_sort(appended)}
               ELSE {Out(s, SLURM_ERROR, FALSE) : s \in list_sort(appended)}

\* what a call on the update list leaves alone
UpdateFrame ==
    UNCHANGED <<alive, entries, major_type, uid, paranoia, opens, held,
                disciplined, refused, lastOp, refBefore, verdict, threadVars,
                filterVars, family, luaVars>>

addto_update_list ==
    /\ ~updateOp.crashed
    /\ updateOp.object < MaxUpdates
    /\ \E given \in BOOLEAN, type \in UpdateTypes :
          \E o \in AddtoOutcomes(update_list, given, type,
                                 updateOp.object + 1) :
             /\ update_list' = o.list
             /\ updateOp' = [op |-> "addto_update_list", type |-> type,
                             object |-> updateOp.object + 1, rc |-> o.rc,
                             crashed |-> o.crashed]
    /\ UpdateFrame

\* dump_update_list: rc is the number of update objects it reports as
\* having no records
dump_update_list ==
    /\ ~updateOp.crashed
    /\ updateOp.op # "dump_update_list"
    /\ updateOp' = [updateOp EXCEPT
                      !.op = "dump_update_list",
                      !.rc = Cardinality(
                                {i \in 1..Len(update_list) :
                                    \/ update_list[i].objects.null
                                    \/ Len(update_list[i].objects.items)
                                          = 0})]
    /\ UNCHANGED update_list
    /\ UpdateFrame

NextUpdates ==
    \/ addto_update_list
    \/ dump_update_list

SpecUpdates == Init /\ [][NextUpdates]_vars

(***************************************************************************)
(* Properties.                                                             *)
(***************************************************************************)
Loaded(e) == e.plug # PLUGIN_INVALID_HANDLE
IsCall(op) == lastOp.op = op
IsStep(op) == lastOp'.op = op

\* C1: in every reachable state an entry with use_count > 0 is loaded.
C1_UseCountImpliesLoaded ==
    \A i \in 1..Len(entries) : entries[i].refcount > 0 => Loaded(entries[i])

\* C2: an acquire that returns a live handle (the first matching entry was
\* loaded already, or its load succeeded) increments that entry's use_count
\* by exactly 1 and returns that entry's handle.
C2_AcquireIncrementsUseCount ==
    [][(IsStep("use_by_type") /\ lastOp'.rc # PLUGIN_INVALID_HANDLE) =>
         LET i == FirstByType(entries, lastOp'.arg) IN
         /\ i # 0
         /\ entries'[i].plug = lastOp'.rc
         /\ entries'[i].refcount = entries[i].refcount + 1]_vars

\* C3: an acquire whose load of the matched entry fails leaves the entry
\* unloaded and its use_count unchanged, and returns the invalid handle.
C3_FailedLoadChangesNothing ==
    [][(/\ IsStep("use_by_type")
        /\ Len(lastOp'.calls) = 1
        /\ lastOp'.calls[1].kind = "load"
        /\ lastOp'.calls[1].h = PLUGIN_INVALID_HANDLE) =>
         /\ lastOp'.rc = PLUGIN_INVALID_HANDLE
         /\ entries' = entries]_vars

\* C4: while the caller releases only handles it obtained from acquire, each
\* entry's use_count is the number of acquires that returned its valid handle
\* and have not been matched by a release.
C4_UseCountIsOutstandingAcquires ==
    disciplined =>
        \A i \in 1..Len(entries) :
            entries[i].refcount =
                IF i = FirstByType(entries, entries[i].full_type)
                THEN CopiesIn(HandleOf(entries[i].fq_path), held)
                ELSE 0

\* C5: no call (purge_idle, destroy) unloads a module for which the caller
\* holds a valid handle that acquire returned and that is not yet released.
C5_NoCloseWhileHeld ==
    \A k \in 1..Len(lastOp.calls) :
        lastOp.calls[k].kind = "unload" => ~BagIn(lastOp.calls[k].h, held)

\* C6: every use_count is >= 0 in every reachable state, and a release that
\* finds the entry decrements a positive use_count by 1 and leaves a
\* use_count of 0 at 0, touching nothing else.
C6_ReleaseClampsAtZero ==
    /\ [](\A i \in 1..Len(entries) : entries[i].refcount >= 0)
    /\ [][IsStep("finished_with_plugin") =>
            LET i == FirstByPlug(entries, lastOp'.arg) IN
            IF i = 0 THEN entries' = entries
            ELSE /\ lastOp'.rc = SLURM_SUCCESS
                 /\ entries' = [entries EXCEPT ![i].refcount =
                                   IF @ > 0 THEN @ - 1 ELSE 0]]_vars

\* a release of a held valid handle found the entry with use_count 0 after it
C6_Witness ==
    /\ IsCall("finished_with_plugin")
    /\ lastOp.rc = SLURM_SUCCESS
    /\ lastOp.arg # PLUGIN_INVALID_HANDLE
    /\ entries[FirstByPlug(entries, lastOp.arg)].refcount = 0

\* C7: a destroy of a rack in which some entry has use_count > 0 returns
\* failure and changes nothing: the entries, their handles and use_counts
\* stay, no module is unloaded, the rack stays.
C7_RefusedDestroyChangesNothing ==
    [][(IsStep("destroy") /\ \E i \in 1..Len(entries) : entries[i].refcount > 0)
        => /\ lastOp'.rc = SLURM_ERROR
           /\ lastOp'.calls = <<>>
           /\ alive'
           /\ entries' = entries
           /\ opens' = opens]_vars

\* a destroy was refused while a module was loaded
C7_Witness ==
    /\ IsCall("destroy")
    /\ lastOp.rc = SLURM_ERROR
    /\ alive
    /\ \E i \in 1..Len(entries) : entries[i].refcount > 0
    /\ \E i \in 1..Len(entries) : Loaded(entries[i])

\* C8: after a refused destroy, once the caller has released every handle
\* value acquire returned to it (one release per acquire), every use_count
\* is 0 and a destroy is not refused.
C8_DestroyAfterReleasingAll ==
    (refused /\ disciplined /\ held = EmptyBag) =>
        /\ \A i \in 1..Len(entries) : entries[i].refcount = 0
        /\ ~(IsCall("destroy") /\ lastOp.rc = SLURM_ERROR)

FileLevelOk(par, u, path) ==
    /\ stat(path).ok
    /\ BitAnd(par, PLUGRACK_PARANOIA_FILE_OWN) # 0 => stat(path).st_uid = u
    /\ BitAnd(par, PLUGRACK_PARANOIA_FILE_WRITABLE) # 0 =>
           ~(stat(path).gw \/ stat(path).ow)
DirLevelOk(par, u, path) ==
    /\ stat(path).ok
    /\ BitAnd(par, PLUGRACK_PARANOIA_DIR_OWN) # 0 => stat(path).st_uid = u
    /\ BitAnd(par, PLUGRACK_PARANOIA_DIR_WRITABLE) # 0 =>
           ~(stat(path).gw \/ stat(path).ow)

\* the files a scan of dir is to register: the regular files that pass the
\* file-level checks themselves and declare a type of the required namespace
ScanAccepts(major, par, u, dir, name) ==
    LET f == ComposePath(dir, name) IN
    /\ stat(f).ok /\ stat(f).reg
    /\ FileLevelOk(par, u, f)
    /\ plugin_peek(f) # TypeNone
    /\ ~TypeRejected(major, plugin_peek(f))

RECURSIVE ScanExpected(_, _, _, _, _)
ScanExpected(major, par, u, dir, names) ==
    IF names = <<>> THEN <<>>
    ELSE (IF ScanAccepts(major, par, u, dir, Head(names))
          THEN <<Entry(plugin_peek(ComposePath(dir, Head(names))),
                       ComposePath(dir, Head(names)))>>
          ELSE <<>>)
         \o ScanExpected(major, par, u, dir, Tail(names))

\* C10: scan_directory registers exactly the regular files of the directory
\* that pass the directory-level checks (on the directory) and the file-level
\* checks (on the file itself) and declare a type of the required namespace;
\* a file that violates the file-level flags is neither peeked nor registered.
C10_ScanRegistersExactlyAccepted ==
    [][(IsStep("read_dir") /\ lastOp'.arg # NULL) =>
         LET dir == lastOp'.arg IN
         /\ entries' = entries \o
                (IF DirLevelOk(paranoia, uid, dir) /\ opendir(dir)
                 THEN ScanExpected(major_type, paranoia, uid, dir, readdir(dir))
                 ELSE <<>>)
         /\ \A k \in 1..Len(lastOp'.calls) :
               /\ lastOp'.calls[k].kind = "peek"
               /\ stat(lastOp'.calls[k].path).reg
               /\ FileLevelOk(paranoia, uid, lastOp'.calls[k].path)]_vars

\* the entries purge_idle is to unload: loaded, with use_count 0
IdleLoaded(es) == SelectSeq(es, LAMBDA e : Loaded(e) /\ e.refcount = 0)

\* C11: purge_idle unloads every entry that is loaded with use_count 0 (one
\* unload call for each, the entry marked not loaded) and leaves every other
\* entry, in particular the handle of every entry with use_count > 0, as it
\* was.
C11_PurgeUnloadsExactlyIdle ==
    [][IsStep("purge_idle") =>
         /\ lastOp'.rc = SLURM_SUCCESS
         /\ Len(entries') = Len(entries)
         /\ \A i \in 1..Len(entries) :
               entries'[i] =
                   IF Loaded(entries[i]) /\ entries[i].refcount = 0
                   THEN [entries[i] EXCEPT !.plug = PLUGIN_INVALID_HANDLE]
                   ELSE entries[i]
         /\ lastOp'.calls = [k \in 1..Len(IdleLoaded(entries)) |->
                                UnloadCall(IdleLoaded(entries)[k].plug)]
         /\ opens' = LoaderAfter(opens, lastOp'.calls)]_vars

\* a purge unloaded an idle module and left a module in use loaded
C11_Witness ==
    /\ IsCall("purge_idle")
    /\ lastOp.calls # <<>>
    /\ \E i \in 1..Len(entries) :
          Loaded(entries[i]) /\ entries[i].refcount > 0

\* C12: a balanced pair on one type, an acquire followed by the release of
\* the handle value that acquire returned (its load having succeeded or
\* failed), leaves the use_count of the entry the acquire matched at the
\* value it had before the pair; so do N such pairs in a row.
C12_BalancedPairRestoresUseCount ==
    [][(/\ IsCall("use_by_type")
        /\ lastOp.arg # NULL
        /\ FirstByType(entries, lastOp.arg) # 0
        /\ IsStep("finished_with_plugin")
        /\ lastOp'.arg = lastOp.rc) =>
         entries'[FirstByType(entries, lastOp.arg)].refcount = refBefore]_vars

\* C13: an acquire of a full_type that no entry has returns the invalid
\* handle, makes no loader call and leaves every entry, and the loader, as
\* they were.
C13_UnknownTypeChangesNothing ==
    [][(/\ IsStep("use_by_type")
        /\ lastOp'.arg # NULL
        /\ FirstByType(entries, lastOp'.arg) = 0) =>
         /\ lastOp'.rc = PLUGIN_INVALID_HANDLE
         /\ lastOp'.calls = <<>>
         /\ entries' = entries
         /\ opens' = opens]_vars

\* an acquire of a type no entry has, on a rack that holds an unloaded entry
\* of another type
C13_Witness ==
    /\ IsCall("use_by_type")
    /\ lastOp.arg # NULL
    /\ FirstByType(entries, lastOp.arg) = 0
    /\ \E i \in 1..Len(entries) : ~Loaded(entries[i])
    /\ lastOp.rc = PLUGIN_INVALID_HANDLE

\* C14: a release of a handle value h with which no entry is currently
\* loaded fails (unknown handle) and leaves every entry as it was.
C14_UnknownHandleRejected ==
    [][(/\ IsStep("finished_with_plugin")
        /\ ~\E i \in 1..Len(entries) :
               Loaded(entries[i]) /\ entries[i].plug = lastOp'.arg) =>
         /\ lastOp'.rc = SLURM_ERROR
         /\ entries' = entries]_vars

\* the call c made alone on the entries es and the loader o
SeqCall(es, o, c, ok) ==
    LET r == IF c.op = "use_by_type" THEN UseStep(es, c.type, ok)
             ELSE PurgeStep(es)
    IN [entries |-> r.entries, opens |-> LoaderAfter(o, r.calls), rc |-> r.rc]

\* the threads' calls have left what the call of t1 followed by the call of
\* t2 leaves, for some outcomes of the loads
SerialOrder(t1, t2) ==
    \E ok1 \in BOOLEAN, ok2 \in BOOLEAN :
        LET a == SeqCall(start.entries, start.opens, loc[t1], ok1)
            b == SeqCall(a.entries, a.opens, loc[t2], ok2)
        IN /\ entries = b.entries
           /\ opens = b.opens
           /\ ret[t1] = a.rc
           /\ ret[t2] = b.rc

\* C15: calls on one rack are serialized: when two threads have called
\* acquire or purge_idle concurrently, the entries, handles, use_counts,
\* loader opens and returned values are those of one of the two sequential
\* orders of the calls.
C15_ConcurrentCallsSerialized ==
    (\A t \in Threads : pc[t] = "done") =>
        SerialOrder(1, 2) \/ SerialOrder(2, 1)

\* the number of not loaded entries among the first i
UnloadedRank(es, i) == Cardinality({j \in 1..i : ~Loaded(es[j])})

\* C16: load_all attempts the load of every entry that is not loaded, a
\* failed load not stopping the sweep; an entry whose load succeeds is
\* loaded afterwards with the opened handle recorded in it, an entry whose
\* load fails stays not loaded, and no use_count changes.
C16_LoadAllRecordsHandles ==
    [][IsStep("load_all") =>
         /\ Len(entries') = Len(entries)
         /\ Len(lastOp'.calls) = UnloadedRank(entries, Len(entries))
         /\ \A i \in 1..Len(entries) :
               IF Loaded(entries[i]) THEN entries'[i] = entries[i]
               ELSE LET c == lastOp'.calls[UnloadedRank(entries, i)] IN
                    /\ c.kind = "load"
                    /\ c.path = entries[i].fq_path
                    /\ entries'[i] = [entries[i] EXCEPT !.plug = c.h]]_vars

\* strrchr and *p = 0: the directory of a path
ParentDir(path) == SubSeq(path, 1, strrchr(path, "/") - 1)

\* the files register_file is to register
RegisterAccepts(major, par, u, f) ==
    /\ FileLevelOk(par, u, f)
    /\ DirLevelOk(par, u, ParentDir(f))
    /\ plugin_peek(f) # TypeNone
    /\ ~TypeRejected(major, plugin_peek(f))

ScanCandidate(major, dir, name) ==
    LET f == ComposePath(dir, name) IN
    /\ stat(f).ok /\ stat(f).reg
    /\ plugin_peek(f) # TypeNone
    /\ ~TypeRejected(major, plugin_peek(f))

C19_AcquireRespectsNamespace ==
    (IsCall("use_by_type") /\ lastOp.rc # PLUGIN_INVALID_HANDLE) =>
        ~TypeRejected(major_type, lastOp.arg)

\* C20: the validator accepts a node exactly when it can be statted, the
\* owner check is off or the node's owner is the authorized uid, and the
\* writability check is off or the node is writable neither by its group
\* nor by others.
C20_ValidatorMatchesReference ==
    verdict.called =>
        LET st == stat(verdict.fq_path) IN
        (verdict.rc # 0) <=>
            /\ st.ok
            /\ ~(verdict.check_own # 0 /\ st.st_uid # verdict.uid)
            /\ ~(verdict.check_write # 0 /\ (st.gw \/ st.ow))

\* a node of the authorized uid was rejected because others can write it
C20_Witness ==
    /\ verdict.called
    /\ stat(verdict.fq_path).ok
    /\ verdict.check_own # 0
    /\ stat(verdict.fq_path).st_uid = verdict.uid
    /\ verdict.check_write # 0
    /\ stat(verdict.fq_path).ow /\ ~stat(verdict.fq_path).gw
    /\ verdict.rc = 0

\* C21 as stated: with the owner check and the writability check both off
\* the validator accepts every path, whatever the state of the node.
C21_SwitchesOffAcceptsAll ==
    (verdict.called /\ verdict.check_own = 0 /\ verdict.check_write = 0) =>
        verdict.rc # 0

\* C21, amended: with both switches off the validator accepts every path
\* whose node can be statted, whoever owns it and whoever can write it, and
\* rejects a path whose node cannot be statted.
C21_SwitchesOffAcceptsStattable ==
    (verdict.called /\ verdict.check_own = 0 /\ verdict.check_write = 0) =>
        (verdict.rc # 0 <=> stat(verdict.fq_path).ok)

\* with both switches off a group-writable node of another uid was accepted
C21_Witness ==
    /\ verdict.called
    /\ verdict.check_own = 0
    /\ verdict.check_write = 0
    /\ stat(verdict.fq_path).ok
    /\ stat(verdict.fq_path).gw
    /\ stat(verdict.fq_path).st_uid # verdict.uid
    /\ verdict.rc # 0

HasSeparator(path) == \E k \in 1..Len(path) : path[k] = "/"

\* the directory that contains the file a path with a separator names
ContainingDir(path) ==
    IF strrchr(path, "/") = 1 THEN DirRoot
    ELSE SubSeq(path, 1, strrchr(path, "/") - 1)

\* C22: for every file path with a path separator register_file applies the
\* directory-level checks to the containing directory and rejects the file,
\* creating no entry and calling no loader operation, when that directory
\* fails them although the file passes the file-level checks.
C22_DirectoryChecksOnContainingDir ==
    [][(/\ IsStep("add_plugin_file")
        /\ lastOp'.arg # NULL
        /\ HasSeparator(lastOp'.arg)
        /\ FileLevelOk(paranoia, uid, lastOp'.arg)
        /\ ~DirLevelOk(paranoia, uid, ContainingDir(lastOp'.arg))) =>
         /\ lastOp'.rc = SLURM_ERROR
         /\ lastOp'.calls = <<>>
         /\ entries' = entries]_vars

\* C23 as stated: register_file on a path without a path separator fails
\* and creates no entry.
C23_NoSeparatorRejected ==
    [][(/\ IsStep("add_plugin_file")
        /\ lastOp'.arg # NULL
        /\ ~HasSeparator(lastOp'.arg)) =>
         /\ lastOp'.rc = SLURM_ERROR
         /\ entries' = entries]_vars

\* C23, amended: while some check is enabled, register_file on a path
\* without a path separator fails as malformed, creating no entry and
\* calling no loader operation; while no check is enabled the path is not
\* validated at all: its type is peeked and it is registered unless the peek
\* or the namespace filter fails.
C23_NoSeparatorRejectedWhenChecking ==
    [][(/\ IsStep("add_plugin_file")
        /\ lastOp'.arg # NULL
        /\ ~HasSeparator(lastOp'.arg)) =>
         IF paranoia # PLUGRACK_PARANOIA_NONE
         THEN /\ lastOp'.rc = SLURM_ERROR
              /\ lastOp'.calls = <<>>
              /\ entries' = entries
         ELSE /\ lastOp'.calls = <<PeekCall(lastOp'.arg)>>
              /\ (lastOp'.rc = SLURM_SUCCESS) <=>
                    /\ plugin_peek(lastOp'.arg) # TypeNone
                    /\ ~TypeRejected(major_type, plugin_peek(lastOp'.arg))
              /\ lastOp'.rc = SLURM_SUCCESS =>
                    entries' = Append(entries,
                                      Entry(plugin_peek(lastOp'.arg),
                                            lastOp'.arg))]_vars

\* with a check enabled, a plugin file that passes the file-level checks
\* was refused because its path has no separator
C23_Witness ==
    /\ IsCall("add_plugin_file")
    /\ lastOp.arg # NULL
    /\ ~HasSeparator(lastOp.arg)
    /\ paranoia # PLUGRACK_PARANOIA_NONE
    /\ FileLevelOk(paranoia, uid, lastOp.arg)
    /\ plugin_peek(lastOp.arg) # TypeNone
    /\ lastOp.rc = SLURM_ERROR
    /\ lastOp.calls = <<>>

\* the peeks of a scan that checks nothing: one for each regular file
RECURSIVE ScanPeeks(_, _)
ScanPeeks(dir, names) ==
    IF names = <<>> THEN <<>>
    ELSE (IF stat(ComposePath(dir, Head(names))).ok
             /\ stat(ComposePath(dir, Head(names))).reg
          THEN <<PeekCall(ComposePath(dir, Head(names)))>>
          ELSE <<>>)
         \o ScanPeeks(dir, Tail(names))

\* C24: a newly created rack has no security check enabled, and while none
\* is enabled neither register_file nor scan_directory rejects anything on
\* security grounds: register_file peeks every path it is given and
\* scan_directory every regular file of a directory it can open, and what
\* they register depends on the peek and the namespace filter only.
C24_NoChecksAcceptsEverything ==
    /\ [](IsCall("create") => paranoia = PLUGRACK_PARANOIA_NONE)
    /\ [][(/\ paranoia = PLUGRACK_PARANOIA_NONE
            /\ IsStep("add_plugin_file")
            /\ lastOp'.arg # NULL) =>
             /\ lastOp'.calls = <<PeekCall(lastOp'.arg)>>
             /\ (lastOp'.rc = SLURM_SUCCESS) <=>
                   /\ plugin_peek(lastOp'.arg) # TypeNone
                   /\ ~TypeRejected(major_type, plugin_peek(lastOp'.arg))]_vars
    /\ [][(/\ paranoia = PLUGRACK_PARANOIA_NONE
            /\ IsStep("read_dir")
            /\ lastOp'.arg # NULL
            /\ opendir(lastOp'.arg)) =>
             /\ lastOp'.rc = SLURM_SUCCESS
             /\ lastOp'.calls = ScanPeeks(lastOp'.arg, readdir(lastOp'.arg))
             /\ entries' = entries \o
                    ScanExpected(major_type, PLUGRACK_PARANOIA_NONE, uid,
                                 lastOp'.arg, readdir(lastOp'.arg))]_vars

\* with no check enabled a group-writable plugin file of another uid was
\* registered
C24_Witness ==
    /\ IsCall("add_plugin_file")
    /\ lastOp.arg # NULL
    /\ paranoia = PLUGRACK_PARANOIA_NONE
    /\ stat(lastOp.arg).ok
    /\ stat(lastOp.arg).gw
    /\ stat(lastOp.arg).st_uid # uid
    /\ lastOp.rc = SLURM_SUCCESS
    /\ entries[Len(entries)] = Entry(plugin_peek(lastOp.arg), lastOp.arg)

\* the entries of a type, by position
OfType(es, t) == {i \in 1..Len(es) : es[i].full_type = t}

\* C25: registration never de-duplicates, a successful register_file
\* appending an entry also when the type is present already; and acquire of
\* a type works on the earliest entry of that type only, also when that
\* entry fails to load and a later one would load: no later entry changes,
\* the only loader call is a load of the earliest entry's path, and the
\* earliest entry's handle is what is returned.
C25_NoDedupEarliestWins ==
    /\ [][(IsStep("add_plugin_file") /\ lastOp'.rc = SLURM_SUCCESS) =>
             entries' = Append(entries, Entry(plugin_peek(lastOp'.arg),
                                              lastOp'.arg))]_vars
    /\ [][(/\ IsStep("use_by_type")
            /\ lastOp'.arg # NULL
            /\ OfType(entries, lastOp'.arg) # {}) =>
             LET m == OfType(entries, lastOp'.arg)
                 first == CHOOSE i \in m : \A j \in m : i <= j
             IN /\ \A i \in 1..Len(entries) :
                       i # first => entries'[i] = entries[i]
                /\ \A k \in 1..Len(lastOp'.calls) :
                       /\ lastOp'.calls[k].kind = "load"
                       /\ lastOp'.calls[k].path = entries[first].fq_path
                /\ lastOp'.rc = entries'[first].plug]_vars

\* an acquire of a type registered twice failed on the load of the first
\* entry and left the second, a file that loads, alone
C25_Witness ==
    /\ IsCall("use_by_type")
    /\ Len(entries) = 2
    /\ entries[1].full_type = lastOp.arg
    /\ entries[2].full_type = lastOp.arg
    /\ entries[1].fq_path # entries[2].fq_path
    /\ lastOp.rc = PLUGIN_INVALID_HANDLE
    /\ lastOp.calls = <<LoadCall(entries[1].fq_path, PLUGIN_INVALID_HANDLE)>>
    /\ HandleOf(entries[2].fq_path) # PLUGIN_INVALID_HANDLE
    /\ ~Loaded(entries[2])

\* the namespace filter: no namespace required, or the declared type starts
\* with it, character by character
NamespaceAccepts(major, type) ==
    \/ major = NULL
    \/ /\ Len(major) <= Len(type)
       /\ \A k \in 1..Len(major) : type[k] = major[k]

\* C26: discovery accepts a candidate whose type it has peeked iff no
\* namespace is required or the declared type starts with the required
\* namespace as a raw prefix, no '/' being asked for after it; register_file
\* and scan_directory decide alike.
C26_RawPrefixNamespace ==
    /\ [][(/\ IsStep("add_plugin_file")
            /\ lastOp'.arg # NULL
            /\ lastOp'.calls # <<>>
            /\ plugin_peek(lastOp'.arg) # TypeNone) =>
             ((lastOp'.rc = SLURM_SUCCESS) <=>
                 NamespaceAccepts(major_type, plugin_peek(lastOp'.arg)))]_vars
    /\ [][(/\ IsStep("read_dir")
            /\ lastOp'.arg # NULL) =>
             \A k \in 1..Len(lastOp'.calls) :
                 LET f == lastOp'.calls[k].path IN
                 plugin_peek(f) # TypeNone =>
                     ((\E i \in (Len(entries) + 1)..Len(entries') :
                          entries'[i] = Entry(plugin_peek(f), f))
                      <=> NamespaceAccepts(major_type, plugin_peek(f)))]_vars

\* a scan under the namespace "a" registered a file that declares "ab"
C26_Witness ==
    /\ IsCall("read_dir")
    /\ lastOp.rc = SLURM_SUCCESS
    /\ major_type = <<"a">>
    /\ entries # <<>>
    /\ entries[Len(entries)] = Entry(TypeAB, ComposePath(lastOp.arg, <<"r">>))
    /\ \A k \in 1..Len(TypeAB) : TypeAB[k] # "/"

\* C27: discovery never loads code: register_file and scan_directory make
\* no loader call but peeks, open no module, leave the existing entries as
\* they were, and every entry they create is not loaded and has use_count 0.
C27_DiscoveryNeverLoads ==
    [][(IsStep("add_plugin_file") \/ IsStep("read_dir")) =>
         /\ \A k \in 1..Len(lastOp'.calls) : lastOp'.calls[k].kind = "peek"
         /\ opens' = opens
         /\ Len(entries') >= Len(entries)
         /\ \A i \in 1..Len(entries) : entries'[i] = entries[i]
         /\ \A i \in (Len(entries) + 1)..Len(entries') :
               /\ entries'[i].plug = PLUGIN_INVALID_HANDLE
               /\ entries'[i].refcount = 0]_vars

\* a scan registered a plugin file, not loaded, in a rack that holds a
\* loaded module
C27_Witness ==
    /\ IsCall("read_dir")
    /\ lastOp.rc = SLURM_SUCCESS
    /\ lastOp.calls # <<>>
    /\ Len(entries) >= 2
    /\ Loaded(entries[1])
    /\ opens[entries[1].plug] > 0
    /\ entries[Len(entries)] =
          Entry(plugin_peek(lastOp.calls[Len(lastOp.calls)].path),
                lastOp.calls[Len(lastOp.calls)].path)

\* C28: release never unloads: it makes no loader call and every entry has
\* the handle after it that it had before, also when the use_count is 0
\* after it; an entry that is loaded stops being loaded only in a purge_idle
\* or in a successful destroy.
C28_ReleaseNeverUnloads ==
    /\ [][IsStep("finished_with_plugin") =>
             /\ lastOp'.calls = <<>>
             /\ opens' = opens
             /\ Len(entries') = Len(entries)
             /\ \A i \in 1..Len(entries) :
                   entries'[i].plug = entries[i].plug]_vars
    /\ [][(\E i \in 1..Len(entries) :
               /\ Loaded(entries[i])
               /\ (i > Len(entries') \/ ~Loaded(entries'[i]))) =>
             \/ IsStep("purge_idle")
             \/ IsStep("destroy") /\ lastOp'.rc = SLURM_SUCCESS]_vars

\* a release left an entry at use_count 0 that is still loaded, its module
\* still open
C28_Witness ==
    /\ IsCall("finished_with_plugin")
    /\ lastOp.rc = SLURM_SUCCESS
    /\ lastOp.arg # PLUGIN_INVALID_HANDLE
    /\ \E i \in 1..Len(entries) :
          /\ entries[i].plug = lastOp.arg
          /\ entries[i].refcount = 0
    /\ opens[lastOp.arg] > 0

\* C29: no operation but a successful destroy removes, reorders or rewrites
\* an entry: over register_file, scan_directory, acquire, release,
\* purge_idle, load_all, set_required_namespace and set_security_policy
\* (and a destroy that is refused) every entry keeps its position, its
\* full_type and its file_path, also when the namespace is changed to one
\* the entry does not match.
C29_EntriesStayPut ==
    [][~(IsStep("destroy") /\ lastOp'.rc = SLURM_SUCCESS) =>
         /\ Len(entries') >= Len(entries)
         /\ \A i \in 1..Len(entries) :
               /\ entries'[i].full_type = entries[i].full_type
               /\ entries'[i].fq_path = entries[i].fq_path]_vars

\* the namespace was set to one that an entry of the rack does not match,
\* and the entry is there
C29_Witness ==
    /\ IsCall("set_major_type")
    /\ lastOp.rc = SLURM_SUCCESS
    /\ major_type # NULL
    /\ \E i \in 1..Len(entries) :
          ~NamespaceAccepts(major_type, entries[i].full_type)

\* the plugins a configured list names, in the order of the list: the
\* fields between the commas that are not empty, each under the prefix
\* "cli_filter/" once
Fields(s) ==
    LET cut == {0, Len(s) + 1} \cup {k \in 1..Len(s) : s[k] = ","}
        starts == {k \in 1..Len(s) : (k - 1) \in cut /\ k \notin cut}
        Field(k) ==
            SubSeq(s, k, (CHOOSE e \in cut :
                             e > k /\ \A j \in k..(e - 1) : j \notin cut) - 1)
        Rank(k) == Cardinality({j \in starts : j < k})
    IN [i \in 1..Cardinality(starts) |->
           Field(CHOOSE k \in starts : Rank(k) = i - 1)]

Configured(s) ==
    [i \in 1..Len(Fields(s)) |->
        LET f == Fields(s)[i] IN
        IF Len(f) >= Len(FilterPrefix)
           /\ \A k \in 1..Len(FilterPrefix) : f[k] = FilterPrefix[k]
        THEN f ELSE FilterPrefix \o f]

IsSubmit(o) == o.op \in {"pre_submit", "post_submit"}

\* C30: pre_submit and post_submit call the callbacks of the loaded plugins
\* in the order they are loaded, which is the order of the configured list;
\* they stop at the first callback that returns something other than
\* SLURM_SUCCESS and return that value; they return SLURM_SUCCESS only if
\* every callback was called and returned it; and if the initialisation
\* fails no callback is called and the error is returned.
C30_DispatchInOrderStopAtFailure ==
    /\ [](IsSubmit(filterOp) =>
            LET inv == filterOp.invoked
                n == Len(inv)
            IN /\ n <= Len(g_context)
               /\ \A i \in 1..n : inv[i].fn = <<g_context[i], filterOp.op>>
               /\ \A i \in 1..(n - 1) : inv[i].rc = SLURM_SUCCESS
               /\ n > 0 => filterOp.rc = inv[n].rc
               /\ n < Len(g_context) => n > 0 /\ inv[n].rc # SLURM_SUCCESS
               /\ filterOp.rc = SLURM_SUCCESS =>
                     /\ n = Len(g_context)
                     /\ \A i \in 1..n : inv[i].rc = SLURM_SUCCESS
               /\ (\E k \in 1..Len(filterOp.created) :
                       ~filterOp.created[k].ok) =>
                     /\ n = 0
                     /\ filterOp.rc = SLURM_ERROR)
    /\ [][(IsSubmit(filterOp') /\ g_context' # g_context) =>
             g_context' = Configured(conf)]_vars

\* of two loaded plugins the first was called, returned something other
\* than SLURM_SUCCESS, and the second was not called
C30_Witness ==
    /\ filterOp.op = "pre_submit"
    /\ Len(g_context) = 2
    /\ g_context[1] # g_context[2]
    /\ Len(filterOp.invoked) = 1
    /\ filterOp.invoked[1].rc = 2
    /\ filterOp.rc = 2

\* C31: no callback runs while cli_filter_plugin_fini, called directly or
\* from reconfig or from a failed init, is between the destruction of the
\* contexts and its unlock: a thread that is in a callback holds
\* g_context_lock, no other thread is in the teardown, and the table entry
\* and the context the callback was called through are there.
C31_CallbacksExcludeTeardown ==
    \A t \in Threads :
        pc[t] = "in_callback" =>
            /\ g_context_lock = t
            /\ \A u \in Threads \ {t} :
                   pc[u] \notin {"fini_free", "fini_unlock"}
            /\ loc[t].i < Len(ops)
            /\ loc[t].i < Len(g_context)
            /\ g_context_cnt = Len(g_context)

\* a thread is in the callback of the second plugin while the other waits
\* for the lock at the start of cli_filter_plugin_fini
C31_Witness ==
    /\ pc[1] = "in_callback"
    /\ loc[1].i = 1
    /\ pc[2] = "fini_lock"
    /\ loc[2].op = "fini"

\* C32: with another thread in fini or reconfig, a pre_submit whose own
\* initialisation succeeded with n > 0 plugins loaded returns SLURM_SUCCESS
\* only if it called the callbacks of all n.
C32_SuccessMeansAllFiltersRan ==
    \A t \in Threads :
        (/\ ret[t].op = "pre_submit"
         /\ ret[t].inited
         /\ ret[t].n > 0
         /\ ret[t].rc = SLURM_SUCCESS) =>
            Len(ret[t].invoked) = ret[t].n

\* C33: cli_filter_plugin_init is idempotent: an init that finds
\* g_context_cnt >= 0, at its first test or after it has got the lock
\* behind another thread, returns SLURM_SUCCESS, creates no context and
\* leaves the statics as they are; contexts are created only from the
\* uninitialised state; and the contexts of an initialised driver are the
\* configured plugins, one each, in order.
C33_InitIdempotent ==
    /\ [][\A t \in Threads :
             (/\ pc[t] \in {"init_check", "init_lock"}
              /\ pc'[t] # pc[t]
              /\ pc'[t] # "init_lock"
              /\ g_context_cnt >= 0) =>
                 /\ UNCHANGED Statics
                 /\ IF pc'[t] = "idle" THEN ret'[t].rc = SLURM_SUCCESS
                    ELSE loc'[t].rc = SLURM_SUCCESS
                 /\ IF pc'[t] = "idle" THEN ret'[t].created = <<>>
                    ELSE loc'[t].created = <<>>]_vars
    /\ [][(g_context' # g_context /\ g_context' # <<>>) =>
             g_context = <<>> /\ g_context_cnt < 0]_vars
    /\ [](g_context_cnt >= 0 =>
            /\ Len(g_context) <= Len(Configured(conf))
            /\ \A i \in 1..Len(g_context) :
                  g_context[i] = Configured(conf)[i])

\* a thread that found the driver uninitialised at its first test got the
\* lock after the other thread had initialised it, and created nothing
C33_Witness ==
    /\ pc[1] = "init_unlock"
    /\ loc[1].op = "init"
    /\ loc[1].created = <<>>
    /\ loc[1].rc = SLURM_SUCCESS
    /\ init_run
    /\ Len(g_context) = 2
    /\ ret[2].op = "init"
    /\ Len(ret[2].created) = 2

\* C34: when a context cannot be created cli_filter_plugin_init returns
\* SLURM_ERROR, the contexts it had created are destroyed, each once, and
\* the driver is uninitialised (g_context_cnt = -1, init_run false, no
\* contexts, no list); the next init starts from the head of the configured
\* list again.
C34_InitFailureCleansUp ==
    /\ []((/\ filterOp.op = "init"
            /\ \E k \in 1..Len(filterOp.created) : ~filterOp.created[k].ok)
           =>
            /\ filterOp.rc = SLURM_ERROR
            /\ Len(filterOp.destroyed) = Len(filterOp.created) - 1
            /\ \A k \in 1..Len(filterOp.destroyed) :
                  /\ filterOp.created[k].ok
                  /\ filterOp.destroyed[k].type = filterOp.created[k].type
            /\ g_context_cnt = -1
            /\ ~init_run
            /\ g_context = <<>>
            /\ ops = <<>>
            /\ clifilter_plugin_list = NULL)
    /\ [][(/\ filterOp.op = "init"
            /\ filterOp.rc = SLURM_ERROR
            /\ filterOp'.op = "init"
            /\ filterOp' # filterOp
            /\ conf' = conf
            /\ conf # NULL
            /\ Len(Fields(conf)) > 0) =>
             /\ Len(filterOp'.created) >= 1
             /\ filterOp'.created[1].type = Configured(conf)[1]]_vars

\* an init created the context of the first plugin, failed on the second,
\* and destroyed the first
C34_Witness ==
    /\ filterOp.op = "init"
    /\ filterOp.rc = SLURM_ERROR
    /\ Len(filterOp.created) = 2
    /\ filterOp.created[1].ok
    /\ ~filterOp.created[2].ok
    /\ Len(filterOp.destroyed) = 1
    /\ g_context_cnt = -1

\* C35: every module the rack has open is the handle of exactly one entry:
\* a module has as many opens outstanding as there are entries that hold
\* its handle, and after a successful destroy no module is open; so each
\* open is matched by one close.
C35_EveryOpenTracked ==
    /\ alive =>
          \A h \in Handles :
              opens[h] = Cardinality({i \in 1..Len(entries) :
                                         entries[i].plug = h})
    /\ ~alive => \A h \in Handles : opens[h] = 0

\* C36: set_security_policy(flags, uid) with flags other than 0 stores a
\* policy other than 0 and authorized_uid = uid; with flags 0 it stores the
\* empty policy and leaves authorized_uid as it was.
C36_NonZeroFlagsEnableChecks ==
    [][IsStep("set_paranoia") =>
         IF lastOp'.arg[1] # 0
         THEN paranoia' # PLUGRACK_PARANOIA_NONE /\ uid' = lastOp'.arg[2]
         ELSE paranoia' = PLUGRACK_PARANOIA_NONE /\ uid' = uid]_vars

\* C37: in the cli_filter/lua plugin a Lua state is closed at most once
\* and is never used after it has been closed, whatever the sequence of
\* init, setup_defaults, pre_submit and fini and whether or not the script
\* loads.
C37_LuaStateClosedOnceNeverUsedAfter ==
    /\ ~luaOp.closed_twice
    /\ ~luaOp.used_closed

\* the script of the last call defines the function slurm_cli_pre_submit
DefinesPreSubmit ==
    /\ luaOp.script.load \notin {"nostat", "syntax"}
    /\ luaOp.script.pre = "function"

\* the integer n is the number of v tenths with its fraction cut off
IntegerPart(n, v) ==
    IF v >= 0 THEN n * 10 <= v /\ v < n * 10 + 10
    ELSE n * 10 >= v /\ v > n * 10 - 10

ObjectsOf(i) == update_list[i].objects.items

\* C39: the update list holds at most one update object per update type,
\* the SLURMDB_MODIFY_ASSOC update object, when there is one, is the last
\* element of the list, and within one type the objects stand in the
\* reverse order of their addition.
C39_OnePerTypeModifyAssocLastNewestFirst ==
    /\ \A i, j \in 1..Len(update_list) :
          update_list[i].type = update_list[j].type => i = j
    /\ \A i \in 1..Len(update_list) :
          update_list[i].type = "SLURMDB_MODIFY_ASSOC" =>
              i = Len(update_list)
    /\ \A i \in 1..Len(update_list) :
          \A a, b \in 1..Len(ObjectsOf(i)) :
             a < b => ObjectsOf(i)[a] > ObjectsOf(i)[b]

\* SLURMDB_MODIFY_ASSOC was added first and stands last, behind a type
\* that holds two objects
C39_Witness ==
    /\ Len(update_list) = 2
    /\ update_list[2].type = "SLURMDB_MODIFY_ASSOC"
    /\ ObjectsOf(2) = <<1>>
    /\ Len(ObjectsOf(1)) = 2
    /\ updateOp.op = "addto_update_list"
    /\ updateOp.rc = SLURM_SUCCESS

\* C40: a call of addto_update_list with an update type the switch does
\* not know returns SLURM_ERROR and leaves the update list as it was, and
\* no update object of the list is ever without an objects list.
C40_UnknownTypeLeavesListUnchanged ==
    /\ [](\A i \in 1..Len(update_list) : ~update_list[i].objects.null)
    /\ [][(/\ updateOp'.op = "addto_update_list"
           /\ updateOp'.object # updateOp.object
           /\ updateOp'.type \in UnknownTypes) =>
              (/\ ~updateOp'.crashed
               /\ updateOp'.rc = SLURM_ERROR
               /\ update_list' = update_list)]_vars

====
